---- MODULE Spec2Model ----
(***************************************************************************)
(* y-websocket: the client synchronization session (src/src/y-websocket.js)*)
(* and the server room registry and broadcast engine (src/bin/utils.js).   *)
(*                                                                         *)
(* Both sides are single-threaded and callback driven: every action below  *)
(* is one run-to-completion turn (a socket callback, a timer, an API call).*)
(* Calls a handler makes synchronously (listeners fired by a document or   *)
(* an awareness instance, nested closeConn) are part of the same action.   *)
(*                                                                         *)
(* provider is a client session and server the server; peer is a second    *)
(* session and net the frames in flight between them, in the               *)
(* specifications that join two sessions (NULL in the others).             *)
(***************************************************************************)
EXTENDS Integers, Sequences, FiniteSets, TLC

VARIABLES provider, server, peer, net

vars == <<provider, server, peer, net>>

(***************************************************************************)
(* Bounds of the model                                                     *)
(***************************************************************************)
MaxUnsuccessful == 2   \* cap of wsUnsuccessfulReconnects
MaxTimers == 1         \* cap of pending setTimeout(setupWS) callbacks
MaxAttempts == 6       \* cap of wsUnsuccessfulReconnects in the reconnect specification

(***************************************************************************)
(* Program constants                                                       *)
(***************************************************************************)
messageSync == 0
messageAwareness == 1
messageAuth == 2
messageQueryAwareness == 3
wsReadyStateConnecting == 0
wsReadyStateOpen == 1
wsReadyStateClosing == 2
wsReadyStateClosed == 3

NULL == "null"
roomname == "room"
SubDocs == {"sub"}
DocIds == {roomname} \cup SubDocs
UnknownDoc == "nodoc"
LocalID == "local"       \* doc.clientID of the client session's document
RemoteID == "remote"
ClientIDs == {LocalID, RemoteID}
States == {"a"}          \* presence state blobs (non-null)
LocalUpdate == "l1"      \* content produced by a local edit
RemoteUpdate == "r1"     \* content produced by a peer

RECURSIVE Pow2(_)
Pow2(n) == IF n = 0 THEN 1 ELSE 2 * Pow2(n - 1)

Min(a, b) == IF a < b THEN a ELSE b

(***************************************************************************)
(* Frames and encoders.  A frame is the list of fields written to an       *)
(* encoder: n counts the fields, so that encoding.length(encoder) > 1 is   *)
(* n > 1 (the message type alone is one byte) and decoding.hasContent      *)
(* after the type and the document id is n > 2.                            *)
(*   sync:            type, doc, sub ("step1" | "step2" | "update"), data  *)
(*   awareness:       type, doc, entries (id, clock, state)                *)
(*   query awareness: type, doc                                            *)
(***************************************************************************)
createEncoder == [n |-> 0, type |-> -1, doc |-> "", sub |-> "", data |-> {}, entries |-> {}]

SyncFrame(doc, sub, data) ==
    [n |-> 4, type |-> messageSync, doc |-> doc, sub |-> sub, data |-> data, entries |-> {}]
SyncHeader(doc) ==
    [n |-> 2, type |-> messageSync, doc |-> doc, sub |-> "", data |-> {}, entries |-> {}]
AwarenessFrame(doc, entries) ==
    [n |-> 3, type |-> messageAwareness, doc |-> doc, sub |-> "", data |-> {}, entries |-> entries]
QueryAwarenessFrame(doc) ==
    [n |-> 2, type |-> messageQueryAwareness, doc |-> doc, sub |-> "", data |-> {}, entries |-> {}]
TypeOnlyFrame(t) ==
    [n |-> 1, type |-> t, doc |-> "", sub |-> "", data |-> {}, entries |-> {}]

(***************************************************************************)
(* The Presence Registry (y-protocols Awareness), as the code uses it:     *)
(* states maps a participant id to its state (NULL: absent), meta to its   *)
(* clock (-1: never seen).  The registry's own timer, which drops states   *)
(* that were not renewed within outdatedTimeout, is not part of the model. *)
(***************************************************************************)
\* new Awareness(doc) of the document whose clientID is id
AwarenessOf(id, localState) ==
    [states |-> [i \in ClientIDs |-> IF i = id THEN localState ELSE NULL],
     meta |-> [i \in ClientIDs |-> IF i = id /\ localState # NULL THEN 0 ELSE -1]]

NewAwareness(localState) == AwarenessOf(LocalID, localState)

Present(aw) == {i \in ClientIDs : aw.states[i] # NULL}

currClock(aw, i) == IF aw.meta[i] = -1 THEN 0 ELSE aw.meta[i]

Accepted(aw, e) ==
    \/ currClock(aw, e.id) < e.clock
    \/ currClock(aw, e.id) = e.clock /\ e.state = NULL /\ aw.states[e.id] # NULL

\* awarenessProtocol.applyAwarenessUpdate: the new registry and the change it reports.
\* localID is awareness.clientID (0 on the server, whose local state is null).
applyAwarenessUpdate(aw, entries, localID) ==
    LET acc == {e \in entries : Accepted(aw, e)}
        ent(i) == CHOOSE e \in acc : e.id = i
        ids == {e.id : e \in acc}
        keepLocal(i) == i = localID /\ aw.states[i] # NULL
        added == {i \in ids : aw.meta[i] = -1 /\ ent(i).state # NULL}
        removed == {i \in ids : aw.meta[i] # -1 /\ ent(i).state = NULL}
        updated == {i \in ids : aw.meta[i] # -1 /\ ent(i).state # NULL}
    IN [aw |-> [states |-> [i \in ClientIDs |->
                    IF i \notin ids THEN aw.states[i]
                    ELSE IF ent(i).state = NULL
                         THEN (IF keepLocal(i) THEN aw.states[i] ELSE NULL)
                         ELSE ent(i).state],
                meta |-> [i \in ClientIDs |->
                    IF i \notin ids THEN aw.meta[i]
                    ELSE IF ent(i).state = NULL /\ keepLocal(i)
                         THEN ent(i).clock + 1 ELSE ent(i).clock]],
        added |-> added,
        updated |-> updated,
        filteredUpdated |-> {i \in updated : ent(i).state # aw.states[i]},
        removed |-> removed]

\* awarenessProtocol.removeAwarenessStates
removeAwarenessStates(aw, clients, localID) ==
    LET removed == {i \in clients : aw.states[i] # NULL}
    IN [aw |-> [states |-> [i \in ClientIDs |-> IF i \in removed THEN NULL ELSE aw.states[i]],
                meta |-> [i \in ClientIDs |->
                    IF i \in removed /\ i = localID THEN aw.meta[i] + 1 ELSE aw.meta[i]]],
        removed |-> removed]

\* awarenessProtocol.encodeAwarenessUpdate(awareness, clients, states)
encodeAwarenessUpdate(aw, clients, states) ==
    {[id |-> i, clock |-> aw.meta[i], state |-> states[i]] : i \in clients}

EmptyStates == [i \in ClientIDs |-> NULL]


(***************************************************************************)
(* The client session (WebsocketProvider).  provider holds the fields of   *)
(* the object under their source names.  ws is NULL or the readyState of   *)
(* the socket held; timers counts the pending setTimeout(setupWS) calls;   *)
(* wsFresh abstracts wsLastMessageReceived (TRUE: within                   *)
(* messageReconnectTimeout of now); updateListeners and awarenessListeners *)
(* are the documents and registries on which a listener of the session is  *)
(* registered; intervals are the setInterval timers not cleared.           *)
(* History fields, written but never                                       *)
(* read by the program: sent (the calls made on the socket and on the      *)
(* cross-tab bus during the last turn), threw, lastOp, syncedUps (rises of *)
(* synced since the socket was created), scheduledDelay (the delay of the  *)
(* last reconnect timer), userDisconnected (disconnect() was called and    *)
(* connect() not since), disconnectRun (consecutive disconnect() calls),   *)
(* dropped (the tag of the frame the last turn's dispatcher had no handler *)
(* for, -1: none), emitted (the "update" events the documents emitted in   *)
(* the last turn, with their origin), sockets (the socket objects created  *)
(* by new provider._WS whose close event has not run), statusEvents (the   *)
(* "status" events the last turn emitted, in order, each with the number   *)
(* of frames the turn had handed out before it).                           *)
(***************************************************************************)
NewProvider(connect, maxBackoffTime, disableBc) ==
    [shouldConnect |-> connect, ws |-> NULL, wsconnecting |-> FALSE, wsconnected |-> FALSE,
     synced |-> FALSE, bcconnected |-> FALSE, disableBc |-> disableBc,
     wsUnsuccessfulReconnects |-> 0, maxBackoffTime |-> maxBackoffTime,
     clientID |-> LocalID, docIds |-> {roomname},
     docs |-> [d \in DocIds |-> {}],
     updateListeners |-> {roomname},
     syncedStatus |-> [d \in SubDocs |-> FALSE],
     docsAwareness |-> [d \in DocIds |-> NewAwareness("a")],
     wsFresh |-> FALSE, timers |-> 0,
     sent |-> <<>>, threw |-> FALSE, lastOp |-> "constructor", syncedUps |-> 0,
     scheduledDelay |-> -1, userDisconnected |-> FALSE, disconnectRun |-> 0,
     awarenessListeners |-> {roomname}, intervals |-> {"check"}, destroyed |-> FALSE,
     dropped |-> -1, emitted |-> {}, sockets |-> 0, statusEvents |-> <<>>]

Log(p, via, frame, by, origin) ==
    [p EXCEPT !.sent = Append(@, [via |-> via, frame |-> frame, by |-> by, origin |-> origin])]

\* provider.emit("status", [{ status }])
emitStatus(p, status) ==
    [p EXCEPT !.statusEvents = Append(@, [status |-> status, after |-> Len(p.sent)])]

\* set synced(state)
setSynced(p, state) ==
    IF p.synced # state
    THEN [p EXCEPT !.synced = state, !.syncedUps = IF state THEN @ + 1 ELSE @]
    ELSE p

updateSyncedStatus(p, id, state) ==
    IF p.syncedStatus[id] # state THEN [p EXCEPT !.syncedStatus[id] = state] ELSE p

\* a variant of broadcastMessage that writes to the socket only
broadcastMessage_withoutBus(p, buf, by, origin) ==
    IF p.wsconnected /\ p.ws # NULL /\ p.ws = "OPEN"
    THEN Log(p, "ws", buf, by, origin) ELSE p

\* a variant of broadcastMessage that uses the bus only when the socket is unavailable
broadcastMessage_busAsFallback(p, buf, by, origin) ==
    IF p.wsconnected /\ p.ws # NULL /\ p.ws = "OPEN"
    THEN Log(p, "ws", buf, by, origin)
    ELSE IF p.bcconnected THEN Log(p, "bc", buf, by, origin) ELSE p

broadcastMessage(p, buf, by, origin) ==
    LET p1 == IF p.wsconnected /\ p.ws # NULL /\ p.ws = "OPEN"
              THEN Log(p, "ws", buf, by, origin) ELSE p
    IN IF p1.bcconnected THEN Log(p1, "bc", buf, by, origin) ELSE p1

\* a variant of this._updateHandler that does not look at the origin
providerUpdateHandler_anyOrigin(p, update, origin) ==
    broadcastMessage(p, SyncFrame(roomname, "update", update), "updateHandler", origin)

\* this._updateHandler, the listener installed on the main document
providerUpdateHandler(p, update, origin) ==
    IF origin # "this"
    THEN broadcastMessage(p, SyncFrame(roomname, "update", update), "updateHandler", origin)
    ELSE p

\* the listener this._getSubDocUpdateHandler(id) returns
getSubDocUpdateHandler(p, id, update, origin) ==
    IF origin = "this" THEN p
    ELSE broadcastMessage(p, SyncFrame(id, "update", update), "updateHandler", origin)

\* Y.applyUpdate(doc, update, origin) and a local edit: the document emits
\* "update" to its listeners when the update adds content.
applyUpdate(p, id, update, origin) ==
    LET new == update \ p.docs[id]
        p1 == [p EXCEPT !.docs[id] = @ \cup update,
                        !.emitted = @ \cup {[doc |-> id, origin |-> origin]}]
    IN IF new = {} THEN p
       ELSE IF id \notin p.updateListeners THEN p1
       ELSE IF id = roomname THEN providerUpdateHandler(p1, new, origin)
       ELSE getSubDocUpdateHandler(p1, id, new, origin)

\* this._awarenessUpdateHandler and the listener this._getSubDocAwarenessHandler(docId)
\* returns: the origin of the change is not looked at.
awarenessUpdateHandler(p, docId, changedClients, origin) ==
    LET aw == p.docsAwareness[docId]
    IN broadcastMessage(p, AwarenessFrame(docId, encodeAwarenessUpdate(aw, changedClients, aw.states)),
                        "awarenessHandler", origin)

\* a read past the end of the buffer raises "Unexpected end of array": the
\* exception leaves the handler and the callback that called the dispatcher
Throw(p) == [p |-> [p EXCEPT !.threw = TRUE], encoder |-> createEncoder]

\* a variant of the Sync handler whose sub-document branch does not test emitSynced
handleSync_subdocIgnoresEmitSynced(p, frame, emitSynced) ==
    LET docGuid == frame.doc IN
    IF frame.n < 2 THEN Throw(p)
    ELSE IF docGuid \notin p.docIds THEN [p |-> p, encoder |-> createEncoder]
    ELSE IF frame.n < 3 THEN Throw(p)
    ELSE LET p1 == IF frame.sub = "step1" THEN p
                   ELSE applyUpdate(p, docGuid, frame.data, "this")
             encoder == IF frame.sub = "step1"
                        THEN SyncFrame(docGuid, "step2", p.docs[docGuid] \ frame.data)
                        ELSE SyncHeader(docGuid)
             p2 == IF emitSynced /\ docGuid = roomname /\ frame.sub = "step2" /\ ~p1.synced
                   THEN setSynced(p1, TRUE) ELSE p1
             p3 == IF docGuid # roomname /\ frame.sub = "step2" /\ ~p2.syncedStatus[docGuid]
                   THEN updateSyncedStatus(p2, docGuid, TRUE) ELSE p2
         IN [p |-> p3, encoder |-> encoder]

\* messageHandlers[messageSync]; the result is the provider and the encoder
handleSync(p, frame, emitSynced) ==
    LET docGuid == frame.doc IN
    IF frame.n < 2 THEN Throw(p)
    ELSE IF docGuid \notin p.docIds THEN [p |-> p, encoder |-> createEncoder]
    ELSE IF frame.n < 3 THEN Throw(p)     \* readSyncMessage finds no sub-message
    ELSE LET p1 == IF frame.sub = "step1" THEN p
                   ELSE applyUpdate(p, docGuid, frame.data, "this")
             encoder == IF frame.sub = "step1"
                        THEN SyncFrame(docGuid, "step2", p.docs[docGuid] \ frame.data)
                        ELSE SyncHeader(docGuid)
             p2 == IF emitSynced /\ docGuid = roomname /\ frame.sub = "step2" /\ ~p1.synced
                   THEN setSynced(p1, TRUE) ELSE p1
             p3 == IF emitSynced /\ docGuid # roomname /\ frame.sub = "step2"
                      /\ ~p2.syncedStatus[docGuid]
                   THEN updateSyncedStatus(p2, docGuid, TRUE) ELSE p2
         IN [p |-> p3, encoder |-> encoder]

\* messageHandlers[messageQueryAwareness]
handleQueryAwareness(p, frame) ==
    LET docGuid == frame.doc IN
    IF frame.n < 2 THEN Throw(p)
    ELSE IF docGuid \notin p.docIds THEN [p |-> p, encoder |-> createEncoder]
    ELSE LET aw == p.docsAwareness[docGuid]
         IN [p |-> p,
             encoder |-> AwarenessFrame(docGuid, encodeAwarenessUpdate(aw, Present(aw), aw.states))]

\* messageHandlers[messageAwareness]
handleAwareness(p, frame) ==
    LET docGuid == frame.doc IN
    IF frame.n < 2 THEN Throw(p)
    ELSE IF docGuid \notin p.docIds THEN [p |-> p, encoder |-> createEncoder]
    ELSE IF frame.n < 3 THEN Throw(p)     \* readVarUint8Array finds no update
    ELSE LET r == applyAwarenessUpdate(p.docsAwareness[docGuid], frame.entries, p.clientID)
             p1 == [p EXCEPT !.docsAwareness[docGuid] = r.aw]
             changed == r.added \cup r.updated \cup r.removed
         IN [p |-> IF changed # {} /\ docGuid \in p1.awarenessListeners
                   THEN awarenessUpdateHandler(p1, docGuid, changed, "this") ELSE p1,
             encoder |-> createEncoder]

\* messageHandlers[messageAuth]: a denial is logged by permissionDeniedHandler
handleAuth(p, frame) ==
    IF frame.n < 2 THEN Throw(p) ELSE [p |-> p, encoder |-> createEncoder]

\* a variant of readMessage that hands a frame without handler to the Sync handler
readMessage_defaultsToSync(p, frame, emitSynced) ==
    LET messageType == frame.type IN
    IF messageType = messageAwareness THEN handleAwareness(p, frame)
    ELSE IF messageType = messageAuth THEN handleAuth(p, frame)
    ELSE IF messageType = messageQueryAwareness THEN handleQueryAwareness(p, frame)
    ELSE handleSync(p, frame, emitSynced)

\* readMessage(provider, buf, emitSynced)
readMessage(p, frame, emitSynced) ==
    LET messageType == frame.type IN
    IF messageType = messageSync THEN handleSync(p, frame, emitSynced)
    ELSE IF messageType = messageAwareness THEN handleAwareness(p, frame)
    ELSE IF messageType = messageAuth THEN handleAuth(p, frame)
    ELSE IF messageType = messageQueryAwareness THEN handleQueryAwareness(p, frame)
    ELSE [p |-> [p EXCEPT !.dropped = messageType],   \* console.error("Unable to compute message")
          encoder |-> createEncoder]

needSend(encoder) == encoder.n > 2

\* websocket.onmessage
onmessage(p, frame) ==
    LET r == readMessage([p EXCEPT !.wsFresh = TRUE], frame, TRUE)
    IN IF r.encoder.n > 1 /\ needSend(r.encoder)
       THEN Log(r.p, "ws", r.encoder, "response", "this")
       ELSE r.p

\* a variant of this._bcSubscriber that lets cross-tab frames complete the handshake
bcSubscriber_emitsSynced(p, frame, origin) ==
    IF origin # "this"
    THEN LET r == readMessage(p, frame, TRUE)
         IN IF r.encoder.n > 1 THEN Log(r.p, "bc", r.encoder, "response", "this") ELSE r.p
    ELSE p

\* this._bcSubscriber(data, origin)
bcSubscriber(p, frame, origin) ==
    IF origin # "this"
    THEN LET r == readMessage(p, frame, FALSE)
         IN IF r.encoder.n > 1 THEN Log(r.p, "bc", r.encoder, "response", "this") ELSE r.p
    ELSE p

\* a variant of setupWS that does not look at shouldConnect
setupWS_ignoresShouldConnect(p) ==
    IF p.ws = NULL
    THEN emitStatus([setSynced(p, FALSE) EXCEPT !.ws = "CONNECTING", !.wsconnecting = TRUE,
                                                !.wsconnected = FALSE, !.syncedUps = 0,
                                                !.sockets = @ + 1],
                    "connecting")
    ELSE p

\* a variant of setupWS that does not test provider.ws === null
setupWS_withoutNullTest(p) ==
    IF p.shouldConnect
    THEN emitStatus([setSynced(p, FALSE) EXCEPT !.ws = "CONNECTING", !.wsconnecting = TRUE,
                                                !.wsconnected = FALSE, !.syncedUps = 0,
                                                !.sockets = @ + 1],
                    "connecting")
    ELSE p

\* setupWS(provider): the socket is created in the CONNECTING state
setupWS(p) ==
    IF p.shouldConnect /\ p.ws = NULL
    THEN emitStatus([setSynced(p, FALSE) EXCEPT !.ws = "CONNECTING", !.wsconnecting = TRUE,
                                                !.wsconnected = FALSE, !.syncedUps = 0,
                                                !.sockets = @ + 1],
                    "connecting")
    ELSE p

\* a variant of the delay without the ceiling
backoffDelay_uncapped(p) == Pow2(p.wsUnsuccessfulReconnects) * 100

\* the delay websocket.onclose hands to setTimeout
backoffDelay(p) == Min(Pow2(p.wsUnsuccessfulReconnects) * 100, p.maxBackoffTime)

RECURSIVE removeRemoteStates(_, _)
\* the loop of websocket.onclose over provider.docsAwareness
removeRemoteStates(p, ids) ==
    IF ids = {} THEN p
    ELSE LET docId == CHOOSE d \in ids : TRUE
             aw == p.docsAwareness[docId]
             r == removeAwarenessStates(aw, Present(aw) \ {p.clientID}, p.clientID)
             p1 == [p EXCEPT !.docsAwareness[docId] = r.aw]
             p2 == IF r.removed # {} /\ docId \in p1.awarenessListeners
                   THEN awarenessUpdateHandler(p1, docId, r.removed, "this") ELSE p1
         IN removeRemoteStates(p2, ids \ {docId})

\* a variant of websocket.onclose that retries only after a connection that had opened
onclose_noRetryAfterFailure(p) ==
    LET p1 == [p EXCEPT !.ws = NULL, !.wsconnecting = FALSE, !.wsFresh = FALSE,
                        !.sockets = @ - 1]
    IN IF p1.wsconnected
       THEN [emitStatus(removeRemoteStates(setSynced([p1 EXCEPT !.wsconnected = FALSE], FALSE),
                                           p1.docIds), "disconnected")
                EXCEPT !.timers = @ + 1, !.scheduledDelay = backoffDelay(p1)]
       ELSE [p1 EXCEPT !.wsUnsuccessfulReconnects = @ + 1]

\* a variant of websocket.onclose that leaves synced as it is
onclose_keepsSynced(p) ==
    LET p1 == [p EXCEPT !.ws = NULL, !.wsconnecting = FALSE, !.wsFresh = FALSE,
                        !.sockets = @ - 1]
        p2 == IF p1.wsconnected
              THEN emitStatus(removeRemoteStates([p1 EXCEPT !.wsconnected = FALSE], p1.docIds),
                              "disconnected")
              ELSE [p1 EXCEPT !.wsUnsuccessfulReconnects = @ + 1]
    IN [p2 EXCEPT !.timers = @ + 1, !.scheduledDelay = backoffDelay(p2)]

\* a variant of websocket.onclose that counts every close as a failed attempt
onclose_countsEveryClose(p) ==
    LET p1 == [p EXCEPT !.ws = NULL, !.wsconnecting = FALSE, !.wsFresh = FALSE,
                        !.sockets = @ - 1, !.wsUnsuccessfulReconnects = @ + 1]
        p2 == IF p1.wsconnected
              THEN emitStatus(removeRemoteStates(setSynced([p1 EXCEPT !.wsconnected = FALSE], FALSE),
                                                 p1.docIds), "disconnected")
              ELSE p1
    IN [p2 EXCEPT !.timers = @ + 1, !.scheduledDelay = backoffDelay(p2)]

\* websocket.onclose
onclose(p) ==
    LET p1 == [p EXCEPT !.ws = NULL, !.wsconnecting = FALSE, !.wsFresh = FALSE,
                        !.sockets = @ - 1]
        p2 == IF p1.wsconnected
              THEN emitStatus(removeRemoteStates(setSynced([p1 EXCEPT !.wsconnected = FALSE], FALSE),
                                                 p1.docIds), "disconnected")
              ELSE [p1 EXCEPT !.wsUnsuccessfulReconnects = @ + 1]
    IN [p2 EXCEPT !.timers = @ + 1, !.scheduledDelay = backoffDelay(p2)]

RECURSIVE sendSyncStep1(_, _)
sendSyncStep1(p, ids) ==
    IF ids = {} THEN p
    ELSE LET k == CHOOSE d \in ids : TRUE
         IN sendSyncStep1(Log(p, "ws", SyncFrame(k, "step1", p.docs[k]), "onopen", "this"), ids \ {k})

RECURSIVE sendLocalAwareness(_, _)
sendLocalAwareness(p, ids) ==
    IF ids = {} THEN p
    ELSE LET docId == CHOOSE d \in ids : TRUE
             aw == p.docsAwareness[docId]
             p1 == IF aw.states[p.clientID] # NULL
                   THEN Log(p, "ws", AwarenessFrame(docId, encodeAwarenessUpdate(aw, {p.clientID}, aw.states)),
                            "onopen", "this")
                   ELSE p
         IN sendLocalAwareness(p1, ids \ {docId})

\* a variant of websocket.onopen that announces the connection before it sends
onopen_statusFirst(p) ==
    LET p1 == [p EXCEPT !.ws = "OPEN", !.wsFresh = TRUE, !.wsconnecting = FALSE,
                        !.wsconnected = TRUE, !.wsUnsuccessfulReconnects = 0]
    IN sendLocalAwareness(sendSyncStep1(emitStatus(p1, "connected"), p1.docIds), p1.docIds)

\* a variant of websocket.onopen that does not clear wsconnecting
onopen_keepsConnecting(p) ==
    LET p1 == [p EXCEPT !.ws = "OPEN", !.wsFresh = TRUE,
                        !.wsconnected = TRUE, !.wsUnsuccessfulReconnects = 0]
    IN emitStatus(sendLocalAwareness(sendSyncStep1(p1, p1.docIds), p1.docIds), "connected")

\* websocket.onopen
onopen(p) ==
    LET p1 == [p EXCEPT !.ws = "OPEN", !.wsFresh = TRUE, !.wsconnecting = FALSE,
                        !.wsconnected = TRUE, !.wsUnsuccessfulReconnects = 0]
    IN emitStatus(sendLocalAwareness(sendSyncStep1(p1, p1.docIds), p1.docIds), "connected")

\* ws.close(): the close event comes later, as a turn of its own
wsClose(p) == IF p.ws \in {"CONNECTING", "OPEN"} THEN [p EXCEPT !.ws = "CLOSING"] ELSE p

connectBc(p) ==
    IF p.disableBc THEN p
    ELSE LET p1 == IF ~p.bcconnected
                   THEN [Log(p, "bc.subscribe", createEncoder, "connectBc", "this")
                            EXCEPT !.bcconnected = TRUE]
                   ELSE p
             aw == p1.docsAwareness[roomname]
             p2 == Log(p1, "bc", SyncFrame(roomname, "step1", p1.docs[roomname]), "connectBc", "this")
             p3 == Log(p2, "bc", SyncFrame(roomname, "step2", p1.docs[roomname]), "connectBc", "this")
             p4 == Log(p3, "bc", QueryAwarenessFrame(roomname), "connectBc", "this")
         IN Log(p4, "bc", AwarenessFrame(roomname, encodeAwarenessUpdate(aw, {p.clientID}, aw.states)),
                "connectBc", "this")

\* a variant of disconnectBc that unsubscribes without looking at bcconnected
disconnectBc_unguarded(p) ==
    LET aw == p.docsAwareness[roomname]
        p1 == broadcastMessage(p, AwarenessFrame(roomname, encodeAwarenessUpdate(aw, {p.clientID}, EmptyStates)),
                               "disconnectBc", "this")
    IN [Log(p1, "bc.unsubscribe", createEncoder, "disconnectBc", "this") EXCEPT !.bcconnected = FALSE]

disconnectBc(p) ==
    LET aw == p.docsAwareness[roomname]
        p1 == broadcastMessage(p, AwarenessFrame(roomname, encodeAwarenessUpdate(aw, {p.clientID}, EmptyStates)),
                               "disconnectBc", "this")
    IN IF p1.bcconnected
       THEN [Log(p1, "bc.unsubscribe", createEncoder, "disconnectBc", "this") EXCEPT !.bcconnected = FALSE]
       ELSE p1

disconnect(p) ==
    LET p1 == disconnectBc([p EXCEPT !.shouldConnect = FALSE])
    IN IF p1.ws # NULL THEN wsClose(p1) ELSE p1

connect(p) ==
    LET p1 == [p EXCEPT !.shouldConnect = TRUE]
    IN IF ~p1.wsconnected /\ p1.ws = NULL THEN connectBc(setupWS(p1)) ELSE p1

addSubdoc(p, guid) ==
    LET p1 == [p EXCEPT !.docIds = @ \cup {guid}, !.updateListeners = @ \cup {guid},
                        !.docsAwareness[guid] = AwarenessOf(p.clientID, "a"),
                        !.awarenessListeners = @ \cup {guid}]
    IN broadcastMessage(p1, SyncFrame(guid, "step1", p1.docs[guid]), "addSubdoc", "this")

\* awareness.setLocalState(state) on the main document's registry: the
\* registry emits "update" to this._awarenessUpdateHandler
setLocalState(p, state) ==
    LET aw == p.docsAwareness[roomname]
        p1 == [p EXCEPT !.docsAwareness[roomname].states[p.clientID] = state,
                        !.docsAwareness[roomname].meta[p.clientID] = currClock(aw, p.clientID) + 1]
    IN IF roomname \in p1.awarenessListeners
       THEN awarenessUpdateHandler(p1, roomname, {p.clientID}, "local") ELSE p1

\* a variant of the callback that does not look at wsconnected
checkInterval_ignoresConnected(p) == IF ~p.wsFresh THEN wsClose(p) ELSE p

\* the callback of this._checkInterval
checkInterval(p) == IF p.wsconnected /\ ~p.wsFresh THEN wsClose(p) ELSE p

\* removeSubdoc(subdoc): the maps keep their entries; for a document that was
\* never added docsAwareness.get is undefined and awareness.off raises
removeSubdoc(p, guid) ==
    IF guid \notin p.docIds THEN [p EXCEPT !.threw = TRUE]
    ELSE [p EXCEPT !.updateListeners = @ \ {guid}, !.awarenessListeners = @ \ {guid}]

\* the constructor with resyncInterval > 0
withResyncInterval(p) == [p EXCEPT !.intervals = @ \cup {"resync"}]

\* the callback of this._resyncInterval
resyncTick(p) ==
    IF p.ws # NULL /\ p.ws = "OPEN"
    THEN Log(p, "ws", SyncFrame(roomname, "step1", p.docs[roomname]), "resync", "this")
    ELSE p

\* destroy()
destroy(p) ==
    LET p1 == disconnect([p EXCEPT !.intervals = {}])
    IN [p1 EXCEPT !.awarenessListeners = @ \ {roomname},
                  !.updateListeners = @ \ {roomname},
                  !.destroyed = TRUE]


(***************************************************************************)
(* The server (bin/utils.js).  server.docs is the registry (room name ->   *)
(* index of the Room object in server.rooms, 0: no entry); server.rooms    *)
(* are the WSSharedDoc objects created so far, in creation order, each     *)
(* with its conns (the keys of the Map, in insertion order), controlled    *)
(* (the Map's values), awareness and content; server.conns are the         *)
(* connection objects with the variables of the closure setupWSConnection  *)
(* creates for each (doc, pongReceived, pingInterval).                     *)
(* History fields: sent, threw, removed (the ids closeConn removed in the  *)
(* last turn), and per room writes (calls of writeState), emptied (times   *)
(* the connection set became empty), binds (calls of bindState) and        *)
(* introducedBy (the connection whose frame made an id present).           *)
(***************************************************************************)
RoomNames == {"doc-1"}
Conns == {1, 2}   \* the connections the server accepts in a run, in order of arrival
ServerID == "server"   \* awareness.clientID of a Room: no client uses it

ServerSync(sub, data) ==
    [n |-> 3, type |-> messageSync, doc |-> "", sub |-> sub, data |-> data, entries |-> {}]
ServerAwareness(entries) ==
    [n |-> 2, type |-> messageAwareness, doc |-> "", sub |-> "", data |-> {}, entries |-> entries]

Range(seq) == {seq[i] : i \in 1..Len(seq)}
Without(seq, x) == SelectSeq(seq, LAMBDA y : y # x)

NewConn ==
    [phase |-> "new", readyState |-> wsReadyStateOpen, doc |-> 0,
     pongReceived |-> FALSE, pingInterval |-> FALSE]

\* new WSSharedDoc(name): the awareness local state is set to null
WSSharedDoc(name) ==
    [name |-> name, conns |-> <<>>, controlled |-> [c \in Conns |-> {}],
     awareness |-> NewAwareness(NULL), content |-> {}, destroyed |-> FALSE,
     pendingWrites |-> 0, writes |-> 0, emptied |-> 0, binds |-> 0,
     introducedBy |-> [i \in ClientIDs |-> 0]]

NewServer(persistence) ==
    [persistence |-> persistence, docs |-> [nm \in RoomNames |-> 0], rooms |-> <<>>,
     conns |-> [c \in Conns |-> NewConn],
     sent |-> <<>>, removed |-> {}, threw |-> FALSE]

SLog(S, c, frame) == [S EXCEPT !.sent = Append(@, [to |-> c, frame |-> frame])]

RECURSIVE closeConn(_, _, _)
RECURSIVE send(_, _, _, _)
RECURSIVE send_withoutCleanup(_, _, _, _)
RECURSIVE forEachSend(_, _, _, _)
RECURSIVE awarenessChangeHandler(_, _, _, _, _, _)
RECURSIVE awarenessChangeHandler_skipsOrigin(_, _, _, _, _, _)

\* send that writes to open sockets and leaves the others alone
send_withoutCleanup(S, r, c, m) ==
    IF S.conns[c].readyState = wsReadyStateOpen THEN SLog(S, c, m) ELSE S

\* send(doc, conn, m).  conn.send on a socket that is not open fails, by an
\* exception or through the callback: both end in closeConn.
send(S, r, c, m) ==
    LET S1 == IF S.conns[c].readyState # wsReadyStateConnecting
                 /\ S.conns[c].readyState # wsReadyStateOpen
              THEN closeConn(S, r, c) ELSE S
    IN IF S1.conns[c].readyState = wsReadyStateOpen
       THEN SLog(S1, c, m)
       ELSE closeConn(S1, r, c)

\* doc.conns.forEach((_, c) => send(doc, c, m)): a key deleted before it
\* is visited is not visited
forEachSend(S, r, order, m) ==
    IF order = <<>> THEN S
    ELSE LET c == Head(order)
         IN forEachSend(IF c \in Range(S.rooms[r].conns) THEN send(S, r, c, m) ELSE S,
                        r, Tail(order), m)

\* a variant of awarenessChangeHandler that leaves out the connection the change came from
awarenessChangeHandler_skipsOrigin(S, r, added, updated, removed, conn) ==
    LET changedClients == added \cup updated \cup removed
        S1 == IF conn # 0 /\ conn \in Range(S.rooms[r].conns)
              THEN [S EXCEPT !.rooms[r].controlled[conn] = (@ \cup added) \ removed]
              ELSE S
        aw == S1.rooms[r].awareness
    IN forEachSend(S1, r, Without(S1.rooms[r].conns, conn),
                   ServerAwareness(encodeAwarenessUpdate(aw, changedClients, aw.states)))

\* awarenessChangeHandler({added, updated, removed}, conn); conn = 0 is null
awarenessChangeHandler(S, r, added, updated, removed, conn) ==
    LET changedClients == added \cup updated \cup removed
        S1 == IF conn # 0 /\ conn \in Range(S.rooms[r].conns)
              THEN [S EXCEPT !.rooms[r].controlled[conn] = (@ \cup added) \ removed]
              ELSE S
        aw == S1.rooms[r].awareness
    IN forEachSend(S1, r, S1.rooms[r].conns,
                   ServerAwareness(encodeAwarenessUpdate(aw, changedClients, aw.states)))

\* closeConn(doc, conn)
closeConn(S, r, c) ==
    LET S4 ==
          IF c \in Range(S.rooms[r].conns)
          THEN LET controlledIds == S.rooms[r].controlled[c]
                   S1 == [S EXCEPT !.rooms[r].conns = Without(@, c),
                                   !.rooms[r].controlled[c] = {},
                                   !.rooms[r].emptied = IF Without(S.rooms[r].conns, c) = <<>>
                                                        THEN @ + 1 ELSE @]
                   rr == removeAwarenessStates(S1.rooms[r].awareness, controlledIds, ServerID)
                   S2 == [S1 EXCEPT !.rooms[r].awareness = rr.aw,
                                    !.removed = @ \cup rr.removed,
                                    !.rooms[r].introducedBy =
                                        [i \in ClientIDs |-> IF i \in rr.removed THEN 0 ELSE @[i]]]
                   S3 == IF rr.removed # {} /\ ~S2.rooms[r].destroyed
                         THEN awarenessChangeHandler(S2, r, {}, {}, rr.removed, 0)
                         ELSE S2
               IN IF S3.rooms[r].conns = <<>> /\ S3.persistence
                  THEN [S3 EXCEPT !.rooms[r].pendingWrites = @ + 1,
                                  !.rooms[r].writes = @ + 1,
                                  !.docs[S3.rooms[r].name] = 0]
                  ELSE S3
          ELSE S
    IN IF S4.conns[c].readyState = wsReadyStateOpen
       THEN [S4 EXCEPT !.conns[c].readyState = wsReadyStateClosing]
       ELSE S4

\* a variant of updateHandler that stops after the first connection
updateHandler_firstOnly(S, r, update) ==
    IF S.rooms[r].conns = <<>> THEN S
    ELSE forEachSend(S, r, <<Head(S.rooms[r].conns)>>, ServerSync("update", update))

\* updateHandler(update, origin, doc)
updateHandler(S, r, update) ==
    forEachSend(S, r, S.rooms[r].conns, ServerSync("update", update))

\* messageListener(conn, doc, message); doc is the Room the closure holds
messageListener(S, c, frame) ==
    LET r == S.conns[c].doc
        room == S.rooms[r]
    IN IF frame.type \in {messageSync, messageAwareness} /\ frame.n < 2
       THEN [S EXCEPT !.threw = TRUE]       \* "Unexpected end of array"
       ELSE IF frame.sub \notin {"", "step1", "step2", "update"}
       THEN [S EXCEPT !.threw = TRUE]       \* "Unknown message type", or an update that does not decode
       ELSE IF frame.type = messageSync
       THEN IF frame.sub = "step1"
            THEN send(S, r, c, ServerSync("step2", room.content \ frame.data))
            ELSE LET new == frame.data \ room.content
                     S1 == [S EXCEPT !.rooms[r].content = @ \cup frame.data]
                 IN IF new # {} /\ ~room.destroyed THEN updateHandler(S1, r, new) ELSE S1
       ELSE IF frame.type = messageAwareness
       THEN LET a == applyAwarenessUpdate(room.awareness, frame.entries, ServerID)
                S1 == [S EXCEPT !.rooms[r].awareness = a.aw,
                                !.rooms[r].introducedBy =
                                    [i \in ClientIDs |->
                                        IF a.aw.states[i] = NULL THEN 0
                                        ELSE IF room.awareness.states[i] = NULL THEN c
                                        ELSE @[i]]]
            IN IF (a.added \cup a.filteredUpdated \cup a.removed) # {} /\ ~room.destroyed
               THEN awarenessChangeHandler(S1, r, a.added, a.filteredUpdated, a.removed, c)
               ELSE S1
       ELSE S   \* no case of the switch matches

\* a variant of setupWSConnection that creates a Room for a name whose Room has no connection
setupWSConnection_recreatesEmptyRoom(S, c, docName) ==
    LET create == S.docs[docName] = 0 \/ S.rooms[S.docs[docName]].conns = <<>>
        S1 == IF create
              THEN [S EXCEPT !.rooms = Append(@, [WSSharedDoc(docName) EXCEPT
                                                    !.binds = IF S.persistence THEN 1 ELSE 0]),
                             !.docs[docName] = Len(S.rooms) + 1]
              ELSE S
        r == S1.docs[docName]
        S2 == [S1 EXCEPT !.rooms[r].conns = Append(@, c),
                         !.rooms[r].controlled[c] = {},
                         !.conns[c] = [@ EXCEPT !.phase = "setup", !.doc = r,
                                                !.pongReceived = TRUE, !.pingInterval = TRUE]]
        S3 == send(S2, r, c, ServerSync("step1", S2.rooms[r].content))
        aw == S3.rooms[r].awareness
    IN IF Present(aw) # {}
       THEN send(S3, r, c, ServerAwareness(encodeAwarenessUpdate(aw, Present(aw), aw.states)))
       ELSE S3

\* setupWSConnection(conn, req, {docName})
setupWSConnection(S, c, docName) ==
    LET create == S.docs[docName] = 0
        S1 == IF create
              THEN [S EXCEPT !.rooms = Append(@, [WSSharedDoc(docName) EXCEPT
                                                    !.binds = IF S.persistence THEN 1 ELSE 0]),
                             !.docs[docName] = Len(S.rooms) + 1]
              ELSE S
        r == S1.docs[docName]
        S2 == [S1 EXCEPT !.rooms[r].conns = Append(@, c),
                         !.rooms[r].controlled[c] = {},
                         !.conns[c] = [@ EXCEPT !.phase = "setup", !.doc = r,
                                                !.pongReceived = TRUE, !.pingInterval = TRUE]]
        S3 == send(S2, r, c, ServerSync("step1", S2.rooms[r].content))
        aw == S3.rooms[r].awareness
    IN IF Present(aw) # {}
       THEN send(S3, r, c, ServerAwareness(encodeAwarenessUpdate(aw, Present(aw), aw.states)))
       ELSE S3

\* a variant of the callback that stops probing a silent connection without closing it
pingTick_keepsSilentConn(S, c, pingThrows) ==
    LET r == S.conns[c].doc IN
    IF ~S.conns[c].pongReceived
    THEN [S EXCEPT !.conns[c].pingInterval = FALSE]
    ELSE IF c \in Range(S.rooms[r].conns)
         THEN LET S1 == [S EXCEPT !.conns[c].pongReceived = FALSE]
              IN IF pingThrows THEN closeConn(S1, r, c) ELSE S1
         ELSE S

\* the callback of pingInterval; pingThrows: conn.ping() raises
pingTick(S, c, pingThrows) ==
    LET r == S.conns[c].doc IN
    IF ~S.conns[c].pongReceived
    THEN [(IF c \in Range(S.rooms[r].conns) THEN closeConn(S, r, c) ELSE S)
            EXCEPT !.conns[c].pingInterval = FALSE]
    ELSE IF c \in Range(S.rooms[r].conns)
         THEN LET S1 == [S EXCEPT !.conns[c].pongReceived = FALSE]
              IN IF pingThrows THEN closeConn(S1, r, c) ELSE S1
         ELSE S

(***************************************************************************)
(* Frames the environment delivers to the session, over the socket and     *)
(* over the cross-tab bus.                                                 *)
(***************************************************************************)
AuthFrame ==
    [n |-> 3, type |-> messageAuth, doc |-> "", sub |-> "denied", data |-> {}, entries |-> {}]
UnknownFrames ==
    {TypeOnlyFrame(99),
     [n |-> 3, type |-> 99, doc |-> roomname, sub |-> "step2", data |-> {RemoteUpdate}, entries |-> {}]}
\* the header-only frame a session publishes in answer to a step-2 on the bus
MalformedFrames == {SyncHeader(roomname)}
SyncFrames ==
    {SyncFrame(roomname, "step1", {}), SyncFrame(roomname, "step2", {RemoteUpdate}),
     SyncFrame(roomname, "update", {RemoteUpdate}), SyncFrame(roomname, "step2", {})}
    \cup {SyncFrame(d, "step2", {RemoteUpdate}) : d \in SubDocs \cup {UnknownDoc}}
    \cup {SyncFrame(d, "step1", {}) : d \in SubDocs}
AwarenessFrames ==
    {AwarenessFrame(d, {[id |-> RemoteID, clock |-> c, state |-> st]}) :
        d \in {roomname, UnknownDoc}, c \in {1}, st \in {NULL, "a"}}
ClientFrames ==
    SyncFrames \cup AwarenessFrames \cup {QueryAwarenessFrame(roomname), AuthFrame}
    \cup UnknownFrames \cup MalformedFrames

(***************************************************************************)
(* The session's turns                                                     *)
(***************************************************************************)
Begin(p) ==
    [p EXCEPT !.sent = <<>>, !.threw = FALSE, !.dropped = -1, !.emitted = {},
              !.statusEvents = <<>>]

Finish(op, p) ==
    [p EXCEPT !.lastOp = op,
              !.userDisconnected = IF op = "disconnect" THEN TRUE
                                   ELSE IF op = "connect" THEN FALSE ELSE @,
              !.disconnectRun = IF op = "disconnect" THEN Min(@ + 1, 2) ELSE 0]

Connect ==
    /\ provider' = Finish("connect", connect(Begin(provider)))
    /\ UNCHANGED <<server, peer, net>>

Disconnect ==
    /\ provider' = Finish("disconnect", disconnect(Begin(provider)))
    /\ UNCHANGED <<server, peer, net>>

WsOpen ==
    /\ provider.ws = "CONNECTING"
    /\ provider' = Finish("onopen", onopen(Begin(provider)))
    /\ UNCHANGED <<server, peer, net>>

\* a frame arrives; node's ws still delivers frames while the socket is closing
WsMessage ==
    /\ provider.ws \in {"OPEN", "CLOSING"}
    /\ provider.wsconnected
    /\ \E frame \in ClientFrames :
          provider' = Finish("onmessage", onmessage(Begin(provider), frame))
    /\ UNCHANGED <<server, peer, net>>

\* the close event of the socket held, after at most bound failed attempts
CloseWithin(bound) ==
    /\ provider.ws # NULL
    /\ provider.timers < MaxTimers
    /\ provider.wsconnected \/ provider.wsUnsuccessfulReconnects < bound
    /\ provider' = Finish("onclose", onclose(Begin(provider)))
    /\ UNCHANGED <<server, peer, net>>

WsClose == CloseWithin(MaxUnsuccessful)

\* a setTimeout(setupWS, delay, provider) callback fires
ReconnectTimer ==
    /\ provider.timers > 0
    /\ provider' = Finish("timer", setupWS([Begin(provider) EXCEPT !.timers = @ - 1]))
    /\ UNCHANGED <<server, peer, net>>

\* messageReconnectTimeout elapses without a frame
TimePasses ==
    /\ provider.wsconnected
    /\ provider.wsFresh
    /\ provider' = Finish("time", [Begin(provider) EXCEPT !.wsFresh = FALSE])
    /\ UNCHANGED <<server, peer, net>>

CheckInterval ==
    /\ "check" \in provider.intervals
    /\ provider' = Finish("checkInterval", checkInterval(Begin(provider)))
    /\ UNCHANGED <<server, peer, net>>

\* the application edits a document the session is registered on
LocalEdit ==
    /\ \E d \in provider.docIds :
          /\ LocalUpdate \notin provider.docs[d]
          /\ provider' = Finish("edit", applyUpdate(Begin(provider), d, {LocalUpdate}, "local"))
    /\ UNCHANGED <<server, peer, net>>

AddSubdoc ==
    /\ \E guid \in SubDocs \ provider.docIds :
          provider' = Finish("addSubdoc", addSubdoc(Begin(provider), guid))
    /\ UNCHANGED <<server, peer, net>>

\* the bus calls the subscriber: with a frame of another tab, or with the
\* session's own publication (origin = this)
BcMessage ==
    /\ provider.bcconnected
    /\ \E frame \in ClientFrames, origin \in {"this", "other"} :
          provider' = Finish("bcmessage", bcSubscriber(Begin(provider), frame, origin))
    /\ UNCHANGED <<server, peer, net>>

Init ==
    /\ \E c \in BOOLEAN, noBc \in BOOLEAN :
          provider = IF c THEN connect(NewProvider(c, 2500, noBc)) ELSE NewProvider(c, 2500, noBc)
    /\ server = NewServer(FALSE)
    /\ peer = NULL /\ net = NULL

Next ==
    \/ Connect
    \/ Disconnect
    \/ WsOpen
    \/ WsMessage
    \/ WsClose
    \/ ReconnectTimer
    \/ TimePasses
    \/ CheckInterval
    \/ LocalEdit
    \/ AddSubdoc
    \/ BcMessage

Spec == Init /\ [][Next]_vars


(***************************************************************************)
(* The server's turns                                                      *)
(***************************************************************************)
\* a client announces its state, renews it with a higher clock, or leaves
ServerEntries ==
    {[id |-> LocalID, clock |-> 1, state |-> "a"], [id |-> LocalID, clock |-> 2, state |-> "a"],
     [id |-> LocalID, clock |-> 2, state |-> NULL], [id |-> RemoteID, clock |-> 1, state |-> "a"]}
\* tags the server has no case for; the Auth tag is one of them
UnknownServerFrames == {TypeOnlyFrame(99), TypeOnlyFrame(messageAuth)}
\* a Sync frame cut after its tag
MalformedServerFrames == {TypeOnlyFrame(messageSync)}
ServerFrames ==
    {ServerSync("step1", {}), ServerSync("step2", {LocalUpdate}), ServerSync("update", {LocalUpdate})}
    \cup {ServerAwareness({e}) : e \in ServerEntries}
    \cup UnknownServerFrames \cup MalformedServerFrames

SBegin(S) == [S EXCEPT !.sent = <<>>, !.removed = {}, !.threw = FALSE]

\* wss.on('connection', setupWSConnection); connections are numbered as they arrive
SetupWSConnection ==
    /\ \E c \in Conns, docName \in RoomNames :
          /\ server.conns[c].phase = "new"
          /\ \A b \in 1..(c - 1) : server.conns[b].phase # "new"
          /\ server' = setupWSConnection(SBegin(server), c, docName)
    /\ UNCHANGED <<provider, peer, net>>

\* conn.on('message'): frames still arrive while the socket is closing
Message ==
    /\ \E c \in Conns, frame \in ServerFrames :
          /\ server.conns[c].phase = "setup"
          /\ server.conns[c].readyState \in {wsReadyStateOpen, wsReadyStateClosing}
          /\ server' = messageListener(SBegin(server), c, frame)
    /\ UNCHANGED <<provider, peer, net>>

\* the peer starts the closing handshake, or the transport fails: the socket
\* is no longer open and its close event is still to come
PeerClosing ==
    /\ \E c \in Conns :
          /\ server.conns[c].phase = "setup"
          /\ server.conns[c].readyState = wsReadyStateOpen
          /\ server' = [SBegin(server) EXCEPT !.conns[c].readyState = wsReadyStateClosing]
    /\ UNCHANGED <<provider, peer, net>>

\* conn.on('close')
CloseEvent ==
    /\ \E c \in Conns :
          /\ server.conns[c].phase = "setup"
          /\ server' = [closeConn([SBegin(server) EXCEPT !.conns[c].readyState = wsReadyStateClosed],
                           server.conns[c].doc, c)
                    EXCEPT !.conns[c].phase = "closed"]
    /\ UNCHANGED <<provider, peer, net>>

PingTick ==
    /\ \E c \in Conns, pingThrows \in BOOLEAN :
          /\ server.conns[c].pingInterval
          /\ pingThrows => server.conns[c].readyState # wsReadyStateOpen
          /\ server' = pingTick(SBegin(server), c, pingThrows)
    /\ UNCHANGED <<provider, peer, net>>

\* conn.on('pong')
Pong ==
    /\ \E c \in Conns :
          /\ server.conns[c].phase = "setup"
          /\ server.conns[c].readyState = wsReadyStateOpen
          /\ server.conns[c].pingInterval
          /\ ~server.conns[c].pongReceived
          /\ server' = [SBegin(server) EXCEPT !.conns[c].pongReceived = TRUE]
    /\ UNCHANGED <<provider, peer, net>>

\* the callback given to conn.send reports an error
SendError ==
    /\ \E c \in Conns :
          /\ server.conns[c].phase # "new"
          /\ server' = closeConn(SBegin(server), server.conns[c].doc, c)
    /\ UNCHANGED <<provider, peer, net>>

\* the promise of persistence.writeState resolves: doc.destroy()
WriteStateDone ==
    /\ \E r \in 1..Len(server.rooms) :
          /\ server.rooms[r].pendingWrites > 0
          /\ server' = [SBegin(server) EXCEPT !.rooms[r].pendingWrites = @ - 1,
                                       !.rooms[r].destroyed = TRUE]
    /\ UNCHANGED <<provider, peer, net>>

InitServer ==
    /\ provider = NewProvider(FALSE, 2500, FALSE)
    /\ \E persistence \in BOOLEAN : server = NewServer(persistence)
    /\ peer = NULL /\ net = NULL

NextServer ==
    \/ SetupWSConnection
    \/ Message
    \/ PeerClosing
    \/ CloseEvent
    \/ PingTick
    \/ Pong
    \/ SendError
    \/ WriteStateDone

SpecServer == InitServer /\ [][NextServer]_vars


(***************************************************************************)
(* The connection lifecycle alone, for every configured ceiling of the     *)
(* backoff: the turns that create, open and close sockets and fire timers. *)
(* A timer that was scheduled fires: WF on ReconnectTimer.                 *)
(***************************************************************************)
Ceilings == {150, 1000, 2500}

WsCloseReconnect == CloseWithin(MaxAttempts)

InitReconnect ==
    /\ \E c \in BOOLEAN, noBc \in BOOLEAN, maxBackoffTime \in Ceilings :
          provider = IF c THEN connect(NewProvider(c, maxBackoffTime, noBc))
                     ELSE NewProvider(c, maxBackoffTime, noBc)
    /\ server = NewServer(FALSE)
    /\ peer = NULL /\ net = NULL

NextReconnect ==
    \/ Connect
    \/ Disconnect
    \/ WsOpen
    \/ WsCloseReconnect
    \/ ReconnectTimer
    \/ TimePasses
    \/ CheckInterval

SpecReconnect == InitReconnect /\ [][NextReconnect]_vars /\ WF_vars(ReconnectTimer)

(***************************************************************************)
(* Client and server are separate processes: a behaviour of SpecBoth       *)
(* follows one of them while the other has not started.                    *)
(***************************************************************************)
ClientRuns == server = NewServer(FALSE)
ServerRuns == provider = NewProvider(FALSE, 2500, FALSE)

InitBoth == Init \/ InitServer

NextBoth ==
    \/ ClientRuns /\ Next
    \/ ServerRuns /\ NextServer

SpecBoth == InitBoth /\ [][NextBoth]_vars


(***************************************************************************)
(* Properties                                                              *)
(***************************************************************************)
HandlesStep2OfMainDoc ==
    \E frame \in ClientFrames :
        /\ frame.type = messageSync /\ frame.sub = "step2" /\ frame.doc = roomname
        /\ provider' = Finish("onmessage", onmessage(Begin(provider), frame))

\* C1: within the lifetime of one socket synced rises at most once, and only
\* in the turn of websocket.onmessage that handles a Sync frame carrying
\* sync-step-2 for the main document; the close event of a socket that was
\* connected leaves synced false.
C1_SyncedOncePerSocket ==
    [][/\ (~provider.synced /\ provider'.synced) =>
             /\ provider.ws # NULL /\ provider.wsconnected
             /\ provider.syncedUps = 0
             /\ HandlesStep2OfMainDoc
       /\ provider'.syncedUps <= 1
       /\ (provider.wsconnected /\ provider'.lastOp = "onclose") => ~provider'.synced]_vars

C1_Witness ==
    /\ provider.synced /\ provider.syncedUps = 1
    /\ provider.lastOp = "onmessage"
    /\ provider.wsconnected /\ provider.bcconnected

UpdateHandlerFrames == {i \in 1..Len(provider.sent) : provider.sent[i].by = "updateHandler"}

\* C2: an update applied with the session as origin (from a network or a
\* cross-tab frame) is never framed and broadcast by the session's update
\* listener, on the main document and on every registered sub-document: the
\* turn in which a document emits such an update sends no update frame.
C2_NoSelfEcho ==
    /\ \A i \in UpdateHandlerFrames : provider.sent[i].origin # "this"
    /\ \A e \in provider.emitted :
          e.origin = "this" =>
              \A i \in UpdateHandlerFrames : provider.sent[i].frame.doc # e.doc

C2_Witness ==
    /\ [doc |-> roomname, origin |-> "this"] \in provider.emitted
    /\ provider.wsconnected /\ provider.ws = "OPEN" /\ provider.bcconnected
    /\ UpdateHandlerFrames = {}

\* C3: across consecutive unsuccessful attempts the delay scheduled before
\* the next attempt is min(100 * 2^wsUnsuccessfulReconnects, maxBackoffTime),
\* never smaller than the delay scheduled before, never above maxBackoffTime.
C3_BackoffMonotoneAndCapped ==
    [][provider'.wsUnsuccessfulReconnects = provider.wsUnsuccessfulReconnects + 1 =>
          /\ provider'.scheduledDelay =
                Min(100 * Pow2(provider'.wsUnsuccessfulReconnects), provider.maxBackoffTime)
          /\ provider'.scheduledDelay >= provider.scheduledDelay
          /\ provider'.scheduledDelay <= provider.maxBackoffTime]_vars

C3_Witness ==
    /\ provider.lastOp = "onclose"
    /\ provider.wsUnsuccessfulReconnects = 5
    /\ provider.maxBackoffTime = 1000
    /\ provider.scheduledDelay = provider.maxBackoffTime

\* C4: between a call of disconnect() and the next call of connect() no turn
\* creates a socket, whatever timers were pending or get scheduled.
C4_NoSocketAfterDisconnect ==
    [][provider'.userDisconnected => ~(provider.ws = NULL /\ provider'.ws # NULL)]_vars

C4_Witness ==
    /\ provider.userDisconnected
    /\ provider.lastOp = "timer"
    /\ provider.ws = NULL /\ provider.timers = 0

\* C5: whenever the session holds no socket while shouldConnect is true, a
\* new socket is eventually created, unless shouldConnect is withdrawn;
\* this holds again after every failed attempt.
C5_EventuallyReconnects ==
    (provider.ws = NULL /\ provider.shouldConnect) ~> (provider.ws # NULL \/ ~provider.shouldConnect)

C5_Witness ==
    /\ provider.lastOp = "timer"
    /\ provider.ws = "CONNECTING"
    /\ provider.wsUnsuccessfulReconnects >= 2

LiveRooms(docName) ==
    {r \in 1..Len(server.rooms) : server.rooms[r].name = docName /\ ~server.rooms[r].destroyed}

\* C6: in every reachable state at most one Room object exists per room
\* name (a Room object exists from its creation until it is destroyed), and
\* connections set up for a name while its Room is registered share it.
C6_OneRoomPerName ==
    /\ \A docName \in RoomNames : Cardinality(LiveRooms(docName)) <= 1
    /\ \A c \in Conns :
          server.conns[c].phase = "setup" /\ c \in Range(server.rooms[server.conns[c].doc].conns) =>
              server.docs[server.rooms[server.conns[c].doc].name] = server.conns[c].doc

IsRemovalOf(frame, ids) ==
    /\ frame.type = messageAwareness
    /\ \A i \in ids : \E e \in frame.entries : e.id = i /\ e.state = NULL

\* C7: once the connection that introduced a participant id has closed, the
\* id is not in the room's Presence Registry, and the turn that removed ids
\* sent an Awareness frame announcing the removal to every connection that
\* is still in the room's connection set.
C7_PresenceCleanedOnClose ==
    \A r \in 1..Len(server.rooms) :
       /\ \A i \in Present(server.rooms[r].awareness) :
             server.rooms[r].introducedBy[i] # 0 =>
                 server.conns[server.rooms[r].introducedBy[i]].phase # "closed"
       /\ server.removed # {} =>
             \A c \in Range(server.rooms[r].conns) :
                 \E k \in 1..Len(server.sent) :
                     server.sent[k].to = c /\ IsRemovalOf(server.sent[k].frame, server.removed)

\* C8: with persistence configured, writeState has been invoked once for
\* each time the room's connection set became empty, and the room's document
\* is destroyed only when no writeState of it is still running.
C8_WriteStateOncePerEmptying ==
    server.persistence =>
        \A r \in 1..Len(server.rooms) :
           /\ server.rooms[r].writes = server.rooms[r].emptied
           /\ server.rooms[r].destroyed => server.rooms[r].pendingWrites = 0

\* C9: disconnect() on a session that never connected, or twice in a row,
\* raises no error and leaves shouldConnect and bcconnected false; the second
\* of two consecutive calls releases nothing again: it neither unsubscribes
\* from the cross-tab channel nor sends or publishes anything.
C9_DisconnectIdempotent ==
    /\ provider.disconnectRun >= 1 =>
          ~provider.threw /\ ~provider.shouldConnect /\ ~provider.bcconnected
    /\ provider.disconnectRun = 2 =>
          \A i \in 1..Len(provider.sent) : provider.sent[i].via # "bc.unsubscribe"

C9_Witness ==
    /\ provider.disconnectRun = 2
    /\ provider.ws = "CLOSING" /\ provider.wsconnected
    /\ ~provider.disableBc

\* the fields of the session the program reads, but for the time stamp
\* websocket.onmessage renews before it calls the dispatcher
SessionState(p) ==
    [f \in {"shouldConnect", "ws", "wsconnecting", "wsconnected", "synced", "bcconnected",
            "wsUnsuccessfulReconnects", "docIds", "docs", "updateListeners", "syncedStatus",
            "docsAwareness", "timers"} |-> p[f]]

\* C10: a frame whose messageType has no handler produces no response frame
\* and raises no error, in the client dispatcher (called from the socket and
\* from the cross-tab subscriber) and in the server's messageListener, and
\* the session's, the rooms' and the connections' state stays as it was.
C10_UnknownTypeDropped ==
    /\ \A frame \in UnknownFrames :
          /\ provider.ws \in {"OPEN", "CLOSING"} /\ provider.wsconnected =>
                LET q == onmessage(Begin(provider), frame)
                IN /\ q.sent = <<>> /\ ~q.threw
                   /\ SessionState(q) = SessionState(provider)
          /\ provider.bcconnected =>
                LET q == bcSubscriber(Begin(provider), frame, "other")
                IN /\ q.sent = <<>> /\ ~q.threw
                   /\ SessionState(q) = SessionState(provider)
                   /\ q.wsFresh = provider.wsFresh
    /\ \A c \in Conns, frame \in UnknownServerFrames :
          server.conns[c].phase = "setup" =>
              LET T == messageListener(SBegin(server), c, frame)
              IN /\ T.sent = <<>> /\ ~T.threw
                 /\ T.rooms = server.rooms /\ T.conns = server.conns /\ T.docs = server.docs

C10_Witness ==
    /\ provider.dropped = 99
    /\ provider.lastOp = "bcmessage"
    /\ provider.wsconnected /\ provider.synced

\* C11: in every reachable state of the session synced implies wsconnected,
\* also while a socket closed by the watchdog or by disconnect() waits for
\* its close event and after that event.
C11_SyncedImpliesConnected ==
    provider.synced => provider.wsconnected

C11_Witness ==
    /\ provider.synced /\ provider.wsconnected
    /\ provider.ws = "CLOSING"
    /\ provider.lastOp = "checkInterval"

C16_MalformedFrameDropped ==
    /\ \A frame \in MalformedFrames :
          provider.ws \in {"OPEN", "CLOSING"} /\ provider.wsconnected =>
              LET q == onmessage(Begin(provider), frame)
              IN /\ ~q.threw /\ q.sent = <<>>
                 /\ SessionState(q) = SessionState(provider)
    /\ \A c \in Conns, frame \in MalformedServerFrames :
          server.conns[c].phase = "setup" =>
              LET T == messageListener(SBegin(server), c, frame)
              IN /\ ~T.threw /\ T.sent = <<>>
                 /\ T.rooms = server.rooms /\ T.conns = server.conns /\ T.docs = server.docs

\* C17: a turn of the cross-tab subscriber leaves synced and the synced
\* status of every sub-document as they were, whatever frame the bus
\* delivers; synced and a sub-document's status rise only in a turn of the
\* socket's message callback.
C17_BusNeverSetsSynced ==
    [][/\ provider'.lastOp = "bcmessage" =>
             /\ provider'.synced = provider.synced
             /\ provider'.syncedStatus = provider.syncedStatus
       /\ provider'.synced /\ ~provider.synced => provider'.lastOp = "onmessage"
       /\ \A d \in SubDocs :
             provider'.syncedStatus[d] /\ ~provider.syncedStatus[d] =>
                 provider'.lastOp = "onmessage"]_vars

\* the bus delivered content of the main document and of a sub-document to a
\* connected session that has not completed the handshake for either
C17_Witness ==
    /\ provider.lastOp = "bcmessage"
    /\ provider.wsconnected /\ ~provider.synced
    /\ \E d \in SubDocs :
          /\ d \in provider.docIds /\ ~provider.syncedStatus[d]
          /\ [doc |-> d, origin |-> "this"] \in provider.emitted
    /\ RemoteUpdate \in provider.docs[roomname]

\* C19: a connect() turn of a session that is connected, or whose connection
\* attempt is in flight, creates no socket, raises no error and leaves the
\* socket held as it is; in every reachable state at most one socket object
\* exists whose close event has not run, and it is the one the session holds.
C19_AtMostOneSocket ==
    [][/\ provider.sockets <= 1 /\ provider'.sockets <= 1
       /\ (provider'.ws = NULL) <=> (provider'.sockets = 0)
       /\ /\ provider'.lastOp = "connect"
          /\ provider' # provider
          /\ provider.wsconnected \/ provider.wsconnecting
          => /\ provider'.sockets = provider.sockets
             /\ provider'.ws = provider.ws
             /\ ~provider'.threw]_vars

\* connect() ran on a session whose attempt was in flight after a failed one,
\* with a reconnect timer still pending
C19_Witness ==
    /\ provider.lastOp = "connect"
    /\ provider.ws = "CONNECTING" /\ provider.wsconnecting
    /\ provider.sockets = 1
    /\ provider.timers > 0
    /\ provider.wsUnsuccessfulReconnects > 0

(***************************************************************************)
(* The session's life up to and after destroy(): the application's calls,  *)
(* the socket's events and the timers, for a session constructed with or   *)
(* without a resync interval.                                              *)
(***************************************************************************)
RemoveSubdoc ==
    /\ \E guid \in SubDocs :
          provider' = Finish("removeSubdoc", removeSubdoc(Begin(provider), guid))
    /\ UNCHANGED <<server, peer, net>>

ResyncTick ==
    /\ "resync" \in provider.intervals
    /\ provider' = Finish("resync", resyncTick(Begin(provider)))
    /\ UNCHANGED <<server, peer, net>>

Destroy ==
    /\ ~provider.destroyed
    /\ provider' = Finish("destroy", destroy(Begin(provider)))
    /\ UNCHANGED <<server, peer, net>>

InitDestroy ==
    /\ \E c \in BOOLEAN, noBc \in BOOLEAN, resync \in BOOLEAN :
          LET p0 == IF resync THEN withResyncInterval(NewProvider(c, 2500, noBc))
                    ELSE NewProvider(c, 2500, noBc)
          IN provider = IF c THEN connect(p0) ELSE p0
    /\ server = NewServer(FALSE)
    /\ peer = NULL /\ net = NULL

NextDestroy ==
    \/ Connect
    \/ Disconnect
    \/ WsOpen
    \/ WsClose
    \/ ReconnectTimer
    \/ TimePasses
    \/ CheckInterval
    \/ LocalEdit
    \/ AddSubdoc
    \/ RemoveSubdoc
    \/ ResyncTick
    \/ Destroy

SpecDestroy == InitDestroy /\ [][NextDestroy]_vars

\* C18: when destroy() has returned, no listener of the session is
\* registered on any document or Presence Registry (the main ones and those
\* of the sub-documents added with addSubdoc), and neither the watchdog
\* interval nor the resync interval is still set.
C18_DestroyReleasesAll ==
    provider.lastOp = "destroy" =>
        /\ provider.updateListeners = {}
        /\ provider.awarenessListeners = {}
        /\ provider.intervals = {}

(***************************************************************************)
(* The provider of the listing in docs/laravel-echo.md, which keeps a      *)
(* record of unconfirmed local updates and computes syncStatus from it.    *)
(* This provider frames Sync messages without a document id.  provider     *)
(* holds its fields: ws, wsconnected, synced, doc (the content ids of the  *)
(* document), unconfirmedUpdates (records of created and ids, oldest       *)
(* first) and now, the value time.getUnixTime() returns, in milliseconds;  *)
(* ticks counts the advances of the clock.  History field: confirmed, the  *)
(* number of records the last turn removed from unconfirmedUpdates.        *)
(***************************************************************************)
MaxTicks == 4
acceptableConnectionDelay == 8000
mergeWindow == 500
TimeSteps == {1, 499, 500, 8000}
LocalUpdates == {LocalUpdate, "l2"}

NewStatusProvider ==
    [ws |-> NULL, wsconnected |-> FALSE, synced |-> FALSE, doc |-> {},
     unconfirmedUpdates |-> <<>>, now |-> 0, ticks |-> 0, lastOp |-> "constructor",
     confirmed |-> 0]

\* get syncStatus ()
syncStatus(p) ==
    LET connected == p.wsconnected
        receivedInitialSync == p.synced
        localUpdatesSynced == Len(p.unconfirmedUpdates) = 0
        localUpdatesAge == IF localUpdatesSynced THEN 0
                           ELSE p.now - p.unconfirmedUpdates[1].created
    IN [connected |-> connected, receivedInitialSync |-> receivedInitialSync,
        localUpdatesSynced |-> localUpdatesSynced, localUpdatesAge |-> localUpdatesAge,
        status |-> IF connected /\ receivedInitialSync /\ localUpdatesAge = 0 THEN "green"
                   ELSE IF connected /\ localUpdatesAge < acceptableConnectionDelay THEN "yellow"
                   ELSE "red"]

\* this._updateHandler of the listing, for an update whose origin is not the provider
statusUpdateHandler(p, update) ==
    LET n == Len(p.unconfirmedUpdates)
    IN IF n > 0 /\ p.now - p.unconfirmedUpdates[n].created < mergeWindow
       THEN [p EXCEPT !.unconfirmedUpdates[n].ids = @ \cup update]
       ELSE [p EXCEPT !.unconfirmedUpdates = Append(@, [created |-> p.now, ids |-> update])]

\* a variant of the listing's Sync handler that confirms updates on update frames only
statusHandleSync_step2ConfirmsNothing(p, frame) ==
    LET p1 == IF frame.sub = "step1" THEN p ELSE [p EXCEPT !.doc = @ \cup frame.data]
        p2 == IF frame.sub = "step2" /\ ~p1.synced THEN [p1 EXCEPT !.synced = TRUE] ELSE p1
        excluded == [i \in 1..Len(p2.unconfirmedUpdates) |->
                        [p2.unconfirmedUpdates[i] EXCEPT !.ids = @ \ frame.data]]
    IN IF frame.sub = "update"
       THEN [p2 EXCEPT !.unconfirmedUpdates = SelectSeq(excluded, LAMBDA u : u.ids # {})]
       ELSE p2

\* messageHandlers[messageSync] of the listing, called from websocket.onmessage
statusHandleSync(p, frame) ==
    LET p1 == IF frame.sub = "step1" THEN p ELSE [p EXCEPT !.doc = @ \cup frame.data]
        p2 == IF frame.sub = "step2" /\ ~p1.synced THEN [p1 EXCEPT !.synced = TRUE] ELSE p1
        excluded == [i \in 1..Len(p2.unconfirmedUpdates) |->
                        [p2.unconfirmedUpdates[i] EXCEPT !.ids = @ \ frame.data]]
    IN IF frame.sub \in {"step2", "update"}
       THEN [p2 EXCEPT !.unconfirmedUpdates = SelectSeq(excluded, LAMBDA u : u.ids # {})]
       ELSE p2

\* this._bcSubscriber of the listing, for a Sync frame of another tab:
\* readMessage(this, data, false) runs the same handler with emitSynced
\* false, which differs only in leaving synced alone; nothing is published
\* for a step 2 or an update, whose response holds the type alone
statusBcSubscriber(p, frame) ==
    [statusHandleSync(p, frame) EXCEPT !.synced = p.synced]

\* setupWS of the listing
statusSetupWS(p) ==
    IF p.ws = NULL
    THEN [p EXCEPT !.ws = "CONNECTING", !.wsconnected = FALSE, !.synced = FALSE]
    ELSE p

\* websocket.onopen of the listing
statusOnopen(p) == [p EXCEPT !.ws = "OPEN", !.wsconnected = TRUE]

\* closeWebsocketConnection(provider, ws, event)
closeWebsocketConnection(p) ==
    [p EXCEPT !.ws = NULL, !.wsconnected = FALSE, !.synced = IF p.wsconnected THEN FALSE ELSE @]

StatusSetupWS ==
    /\ provider.ws = NULL
    /\ provider' = [statusSetupWS(provider) EXCEPT !.lastOp = "setupWS", !.confirmed = 0]
    /\ UNCHANGED <<server, peer, net>>

StatusOpen ==
    /\ provider.ws = "CONNECTING"
    /\ provider' = [statusOnopen(provider) EXCEPT !.lastOp = "onopen", !.confirmed = 0]
    /\ UNCHANGED <<server, peer, net>>

StatusClose ==
    /\ provider.ws # NULL
    /\ provider' = [closeWebsocketConnection(provider) EXCEPT !.lastOp = "onclose", !.confirmed = 0]
    /\ UNCHANGED <<server, peer, net>>

\* the server answers, relays an update of another client, or echoes the
\* session's own content as the backends that confirm updates do
StatusMessage ==
    /\ provider.ws = "OPEN"
    /\ \E sub \in {"step1", "step2", "update"}, data \in SUBSET (LocalUpdates \cup {RemoteUpdate}) :
          /\ sub = "step1" => data = {}
          /\ LET q == statusHandleSync(provider, ServerSync(sub, data))
             IN provider' = [q EXCEPT !.lastOp = "onmessage",
                                      !.confirmed = Len(provider.unconfirmedUpdates)
                                                    - Len(q.unconfirmedUpdates)]
    /\ UNCHANGED <<server, peer, net>>

\* the application edits the document
StatusLocalEdit ==
    /\ \E u \in LocalUpdates \ provider.doc :
          provider' = [statusUpdateHandler([provider EXCEPT !.doc = @ \cup {u}], {u})
                          EXCEPT !.lastOp = "edit", !.confirmed = 0]
    /\ UNCHANGED <<server, peer, net>>

\* the clock advances between two turns
TimeAdvances ==
    /\ provider.ticks < MaxTicks
    /\ \E d \in TimeSteps :
          provider' = [provider EXCEPT !.now = @ + d, !.ticks = @ + 1, !.lastOp = "time",
                                   !.confirmed = 0]
    /\ UNCHANGED <<server, peer, net>>

InitSyncStatus ==
    /\ provider = statusSetupWS(NewStatusProvider)
    /\ server = NewServer(FALSE)
    /\ peer = NULL /\ net = NULL

NextSyncStatus ==
    \/ StatusSetupWS
    \/ StatusOpen
    \/ StatusClose
    \/ StatusMessage
    \/ StatusLocalEdit
    \/ TimeAdvances

SpecSyncStatus == InitSyncStatus /\ [][NextSyncStatus]_vars

\* C20: whenever the record of unconfirmed local updates is non-empty the
\* status syncStatus returns is not green, and the status read right after
\* a local edit on a connected and synced session is yellow.
C20_UnconfirmedNotGreen ==
    /\ Len(provider.unconfirmedUpdates) > 0 => syncStatus(provider).status # "green"
    /\ provider.lastOp = "edit" /\ provider.wsconnected /\ provider.synced =>
          syncStatus(provider).status = "yellow"

(***************************************************************************)
(* Two sessions of the same room in two tabs of one browser, A (provider)  *)
(* and B (peer), and no server that answers: every connection attempt ends *)
(* with a close event.  net holds, for each session, the frames the        *)
(* cross-tab channel still has to hand to its subscriber, in order.  A     *)
(* publication reaches the sessions subscribed at that moment.  The        *)
(* channel delivers every frame it holds: WF on the deliveries.            *)
(***************************************************************************)
MaxBusAttempts == 1
Sessions == {"A", "B"}
Other(who) == IF who = "A" THEN "B" ELSE "A"
Session(who) == IF who = "A" THEN provider ELSE peer

\* the second session has a document with a client id of its own
NewPeer(shouldConnect, maxBackoffTime, disableBc) ==
    [NewProvider(shouldConnect, maxBackoffTime, disableBc) EXCEPT
        !.clientID = RemoteID,
        !.docsAwareness = [d \in DocIds |-> AwarenessOf(RemoteID, "a")]]

\* the frames a turn handed to bc.publish, in order
Published(p) ==
    LET pub == SelectSeq(p.sent, LAMBDA m : m.via = "bc")
    IN [i \in 1..Len(pub) |-> pub[i].frame]

\* session who ends a turn as q; queues is the channel before the publications
BusTurn(who, q, queues) ==
    /\ provider' = IF who = "A" THEN q ELSE provider
    /\ peer' = IF who = "B" THEN q ELSE peer
    /\ net' = [queues EXCEPT ![Other(who)] =
                  IF Session(Other(who)).bcconnected THEN @ \o Published(q) ELSE @]
    /\ UNCHANGED server

\* the edit of a session is its own
EditOf(who) == IF who = "A" THEN LocalUpdate ELSE RemoteUpdate

BusConnect ==
    \E who \in Sessions :
        /\ ~Session(who).shouldConnect
        /\ BusTurn(who, Finish("connect", connect(Begin(Session(who)))), net)

BusLocalEdit ==
    \E who \in Sessions :
        /\ EditOf(who) \notin Session(who).docs[roomname]
        /\ BusTurn(who, Finish("edit", applyUpdate(Begin(Session(who)), roomname, {EditOf(who)}, "local")),
                   net)

BusDeliverTo(who) ==
    /\ net[who] # <<>>
    /\ BusTurn(who,
               IF Session(who).bcconnected
               THEN Finish("bcmessage", bcSubscriber(Begin(Session(who)), Head(net[who]), "other"))
               ELSE Session(who),
               [net EXCEPT ![who] = Tail(@)])

BusDeliver == \E who \in Sessions : BusDeliverTo(who)

\* the attempt of a session to reach the server fails
BusWsClose ==
    \E who \in Sessions :
        /\ Session(who).ws # NULL
        /\ Session(who).timers < MaxTimers
        /\ Session(who).wsUnsuccessfulReconnects < MaxBusAttempts
        /\ BusTurn(who, Finish("onclose", onclose(Begin(Session(who)))), net)

BusReconnectTimer ==
    \E who \in Sessions :
        /\ Session(who).timers > 0
        /\ BusTurn(who, Finish("timer", setupWS([Begin(Session(who)) EXCEPT !.timers = @ - 1])), net)

InitBus ==
    /\ provider = NewProvider(FALSE, 2500, FALSE)
    /\ peer = NewPeer(FALSE, 2500, FALSE)
    /\ net = [who \in Sessions |-> <<>>]
    /\ server = NewServer(FALSE)

NextBus ==
    \/ BusConnect
    \/ BusLocalEdit
    \/ BusDeliver
    \/ BusWsClose
    \/ BusReconnectTimer

SpecBus ==
    InitBus /\ [][NextBus]_vars /\ WF_vars(BusDeliverTo("A")) /\ WF_vars(BusDeliverTo("B"))

ConnOf(who) == IF who = "A" THEN 1 ELSE 2

\* What messageListener reads from the bytes a session wrote.  The session
\* writes the type, then the document id as a varString (its length, then
\* its characters), then the payload.  The server reads, after the type, a
\* Sync sub-message tag: it finds the length of the id, which is no tag
\* when the id has three characters or more ("Unknown message type"); for a
\* shorter id it is one, and the payload read after it is what is left of
\* the id, which ends before the payload does.  For an Awareness frame it
\* reads a byte array of that length, the characters of the id, which is no
\* encoded awareness update.
serverReads(frame) ==
    IF frame.n < 2 THEN frame
    ELSE LET tag == Len(frame.doc)
         IN IF frame.type = messageSync
            THEN [n |-> IF tag <= 2 THEN 1 ELSE 3, type |-> messageSync, doc |-> "",
                  sub |-> "tag of the id's length", data |-> {}, entries |-> {}]
            ELSE IF frame.type = messageAwareness
            THEN [n |-> IF tag = 0 THEN 1 ELSE 2, type |-> messageAwareness, doc |-> "",
                  sub |-> "bytes of the id", data |-> {}, entries |-> {}]
            ELSE TypeOnlyFrame(frame.type)

\* What a session's handler reads from the bytes the server wrote.  The
\* server writes the type, then the payload.  The session reads, after the
\* type, a varString as document id: for a Sync frame the sub-message tag is
\* taken as its length (step 1: the empty string; step 2, update: one or
\* two bytes of the payload), for an Awareness frame the whole update.
clientReads(frame) ==
    IF frame.n < 2 THEN frame
    ELSE [frame EXCEPT !.doc = IF frame.type = messageSync /\ frame.sub = "step1"
                                THEN "" ELSE "bytes of the payload"]

ClientTurn(who, q, base) ==
    /\ provider' = IF who = "A" THEN q ELSE provider
    /\ peer' = IF who = "B" THEN q ELSE peer
    /\ net' = [base EXCEPT !.c2s[ConnOf(who)] =
                  LET w == SelectSeq(q.sent, LAMBDA m : m.via = "ws")
                  IN @ \o [i \in 1..Len(w) |-> w[i].frame]]
    /\ UNCHANGED server

ServerTurn(S, base) ==
    /\ server' = S
    /\ net' = [base EXCEPT !.s2c = [c \in Conns |->
                  LET w == SelectSeq(S.sent, LAMBDA m : m.to = c)
                  IN @[c] \o [i \in 1..Len(w) |-> w[i].frame]]]
    /\ UNCHANGED <<provider, peer>>

RoomConnect ==
    \E who \in Sessions :
        /\ ~Session(who).shouldConnect /\ Session(who).lastOp = "constructor"
        /\ ClientTurn(who, Finish("connect", connect(Begin(Session(who)))), net)

\* wss.on('connection'): the room is named by the path of the session's url
RoomAccept ==
    \E who \in Sessions :
        /\ Session(who).ws = "CONNECTING"
        /\ server.conns[ConnOf(who)].phase = "new"
        /\ ServerTurn(setupWSConnection(SBegin(server), ConnOf(who), roomname), net)

RoomOpen ==
    \E who \in Sessions :
        /\ Session(who).ws = "CONNECTING"
        /\ server.conns[ConnOf(who)].phase = "setup"
        /\ ClientTurn(who, Finish("onopen", onopen(Begin(Session(who)))), net)

RoomServerReceives ==
    \E c \in Conns :
        /\ net.c2s[c] # <<>>
        /\ server.conns[c].phase = "setup"
        /\ ServerTurn(messageListener(SBegin(server), c, serverReads(Head(net.c2s[c]))),
                      [net EXCEPT !.c2s[c] = Tail(@)])

RoomClientReceives ==
    \E who \in Sessions :
        /\ net.s2c[ConnOf(who)] # <<>>
        /\ Session(who).ws \in {"OPEN", "CLOSING"} /\ Session(who).wsconnected
        /\ ClientTurn(who,
                      Finish("onmessage", onmessage(Begin(Session(who)),
                                                    clientReads(Head(net.s2c[ConnOf(who)])))),
                      [net EXCEPT !.s2c[ConnOf(who)] = Tail(@)])

RoomLocalEdit ==
    \E who \in Sessions :
        /\ EditOf(who) \notin Session(who).docs[roomname]
        /\ ClientTurn(who, Finish("edit", applyUpdate(Begin(Session(who)), roomname,
                                                      {EditOf(who)}, "local")), net)

RoomSetLocalState ==
    \E who \in Sessions :
        /\ Session(who).docsAwareness[roomname].states[Session(who).clientID] = "a"
        /\ ClientTurn(who, Finish("setLocalState", setLocalState(Begin(Session(who)), "cursor")), net)

RoomDisconnect ==
    \E who \in Sessions :
        /\ Session(who).wsconnected /\ Session(who).shouldConnect
        /\ ClientTurn(who, Finish("disconnect", disconnect(Begin(Session(who)))), net)

\* the close event of the session's socket; frames still on their way to it are lost
RoomClientClose ==
    \E who \in Sessions :
        /\ Session(who).ws = "CLOSING"
        /\ ClientTurn(who, Finish("onclose", onclose(Begin(Session(who)))),
                      [net EXCEPT !.s2c[ConnOf(who)] = <<>>])

\* conn.on('close'), after the frames the session wrote before it closed
RoomServerClose ==
    \E who \in Sessions :
        /\ Session(who).ws \in {"CLOSING", NULL} /\ ~Session(who).shouldConnect
        /\ server.conns[ConnOf(who)].phase = "setup"
        /\ net.c2s[ConnOf(who)] = <<>>
        /\ ServerTurn([closeConn([SBegin(server) EXCEPT
                                     !.conns[ConnOf(who)].readyState = wsReadyStateClosed],
                                 server.conns[ConnOf(who)].doc, ConnOf(who))
                          EXCEPT !.conns[ConnOf(who)].phase = "closed"], net)

RoomReconnectTimer ==
    \E who \in Sessions :
        /\ Session(who).timers > 0
        /\ ClientTurn(who, Finish("timer", setupWS([Begin(Session(who)) EXCEPT !.timers = @ - 1])), net)

InitRoom ==
    /\ provider = NewProvider(FALSE, 2500, TRUE)
    /\ peer = NewPeer(FALSE, 2500, TRUE)
    /\ server = [NewServer(FALSE) EXCEPT !.docs = [nm \in {roomname} |-> 0]]
    /\ net = [c2s |-> [c \in Conns |-> <<>>], s2c |-> [c \in Conns |-> <<>>]]

NextRoom ==
    \/ RoomConnect
    \/ RoomAccept
    \/ RoomOpen
    \/ RoomServerReceives
    \/ RoomClientReceives
    \/ RoomLocalEdit
    \/ RoomSetLocalState
    \/ RoomDisconnect
    \/ RoomClientClose
    \/ RoomServerClose
    \/ RoomReconnectTimer

SpecRoom == InitRoom /\ [][NextRoom]_vars

\* every frame either end wrote on the connection of session who has been handled
Settled(who) ==
    /\ Session(who).ws = "OPEN" /\ Session(who).wsconnected
    /\ server.conns[ConnOf(who)].phase = "setup"
    /\ net.c2s[ConnOf(who)] = <<>> /\ net.s2c[ConnOf(who)] = <<>>

\* C12: once the frames of the handshake have been handled, a session
\* connected to the room is synced, and once the frames it wrote have been
\* handled, the edits made in it are part of the room's document.
C12_ConnectedSessionSyncs ==
    \A who \in Sessions :
        Settled(who) =>
            /\ Session(who).synced
            /\ \A r \in 1..Len(server.rooms) :
                  EditOf(who) \in Session(who).docs[roomname] =>
                      EditOf(who) \in server.rooms[r].content

\* C13: with A and B connected to the room, A having set a presence state
\* and every frame handled, B's Presence Registry maps A's participant id to
\* that state; when A has
\* disconnected and the close has been handled, A's id is not in B's registry.
C13_PresenceReachesPeer ==
    /\ (/\ Settled("A") /\ Settled("B")
        /\ provider.docsAwareness[roomname].states[provider.clientID] = "cursor")
          => peer.docsAwareness[roomname].states[provider.clientID] = "cursor"
    /\ (/\ Settled("B") /\ provider.userDisconnected /\ provider.ws = NULL
        /\ server.conns[ConnOf("A")].phase = "closed")
          => peer.docsAwareness[roomname].states[provider.clientID] = NULL

\* the content ids of the unconfirmed local updates
UnconfirmedIds(p) ==
    UNION {p.unconfirmedUpdates[i].ids : i \in 1..Len(p.unconfirmedUpdates)}

\* C21: when the session receives a Sync step-2 or update frame whose
\* content ids cover every unconfirmed local update, the record of
\* unconfirmed updates is empty afterwards and, the session being connected
\* and synced, syncStatus returns green; a frame that leaves some id
\* uncovered leaves the record non-empty.
C21_CoveredUpdatesTurnGreen ==
    provider.ws = "OPEN" =>
        \A sub \in {"step2", "update"}, data \in SUBSET (LocalUpdates \cup {RemoteUpdate}) :
            LET q == statusHandleSync(provider, ServerSync(sub, data))
            IN IF UnconfirmedIds(provider) \subseteq data
               THEN /\ q.unconfirmedUpdates = <<>>
                    /\ q.wsconnected /\ q.synced => syncStatus(q).status = "green"
               ELSE /\ q.unconfirmedUpdates # <<>>
                    /\ UnconfirmedIds(q) = UnconfirmedIds(provider) \ data

\* a frame of the server confirmed two records of different age at once,
\* on a connected and synced session whose status had left green
C21_Witness ==
    /\ provider.lastOp = "onmessage"
    /\ provider.confirmed = 2
    /\ provider.unconfirmedUpdates = <<>>
    /\ provider.wsconnected /\ provider.synced
    /\ syncStatus(provider).status = "green"

\* C22: no frame is written to the socket or published on the cross-tab
\* channel by the presence-update listener for a change the session applied
\* with itself as origin (an update decoded from a frame, the removal of the
\* non-local participants on close).
C22_OwnPresenceChangesNotRebroadcast ==
    \A i \in 1..Len(provider.sent) :
        provider.sent[i].by = "awarenessHandler" => provider.sent[i].origin # "this"

\* C23: a response frame carries content beyond the message type and the
\* document id; a turn of the socket's message callback writes its response
\* to the socket, a turn of the cross-tab subscriber publishes its response
\* on the channel and writes nothing to the socket.
C23_ResponseOnlyWithContent ==
    \A i \in 1..Len(provider.sent) :
        provider.sent[i].by = "response" =>
            /\ provider.sent[i].frame.n > 2
            /\ provider.lastOp = "onmessage" => provider.sent[i].via = "ws"
            /\ provider.lastOp = "bcmessage" => provider.sent[i].via = "bc"

(***************************************************************************)
(* The close event and the open event of the socket                        *)
(***************************************************************************)
StatusCount(p, status) ==
    Cardinality({i \in 1..Len(p.statusEvents) : p.statusEvents[i].status = status})

\* C24: a close event sets ws to null and wsconnecting to false; after a
\* connection that had opened it clears wsconnected and synced, removes every
\* participant but the local one from each registry, keeps the local state,
\* emits one status 'disconnected' and leaves wsUnsuccessfulReconnects; after
\* one that had not opened it adds one to wsUnsuccessfulReconnects, removes
\* nobody and emits no 'disconnected'.
C24_CloseEventEffects ==
    [][provider'.lastOp = "onclose" =>
        /\ provider'.ws = NULL
        /\ ~provider'.wsconnecting
        /\ IF provider.wsconnected
           THEN /\ ~provider'.wsconnected
                /\ ~provider'.synced
                /\ \A d \in provider.docIds :
                      /\ Present(provider'.docsAwareness[d])
                            = Present(provider.docsAwareness[d]) \cap {provider.clientID}
                      /\ provider'.docsAwareness[d].states[provider.clientID]
                            = provider.docsAwareness[d].states[provider.clientID]
                /\ StatusCount(provider', "disconnected") = 1
                /\ provider'.wsUnsuccessfulReconnects = provider.wsUnsuccessfulReconnects
           ELSE /\ provider'.wsUnsuccessfulReconnects = provider.wsUnsuccessfulReconnects + 1
                /\ provider'.docsAwareness = provider.docsAwareness
                /\ StatusCount(provider', "disconnected") = 0
                /\ ~provider'.wsconnected
    ]_vars

\* a close event of an open connection has removed a remote participant
C24_Witness ==
    /\ provider.lastOp = "onclose"
    /\ StatusCount(provider, "disconnected") = 1
    /\ \E i \in 1..Len(provider.sent) :
          /\ provider.sent[i].by = "awarenessHandler"
          /\ \E e \in provider.sent[i].frame.entries : e.id = RemoteID /\ e.state = NULL
    /\ provider.docsAwareness[roomname].states[LocalID] # NULL

\* a close event of a connection that never opened
C24_WitnessFailed ==
    /\ provider.lastOp = "onclose"
    /\ provider.wsUnsuccessfulReconnects = 2
    /\ provider.statusEvents = <<>>

(***************************************************************************)
(* The connection lifecycle with an application that sets and clears its   *)
(* presence state and adds sub-documents.  MaxClock bounds the clock of    *)
(* the local presence entry.                                               *)
(***************************************************************************)
MaxClock == 2

\* awareness.setLocalState(state) on the registry of the main document
SetLocalState ==
    /\ currClock(provider.docsAwareness[roomname], provider.clientID) < MaxClock
    /\ \E state \in States \cup {NULL} :
          provider' = Finish("setLocalState", setLocalState(Begin(provider), state))
    /\ UNCHANGED <<server, peer, net>>

NextOpen ==
    \/ Connect
    \/ Disconnect
    \/ WsOpen
    \/ WsClose
    \/ ReconnectTimer
    \/ AddSubdoc
    \/ SetLocalState

SpecOpen == Init /\ [][NextOpen]_vars

\* the frames of kind type (and sync sub-type sub) for document d written to the socket
WrittenFor(p, type, sub, d) ==
    {i \in 1..Len(p.sent) : /\ p.sent[i].via = "ws"
                            /\ p.sent[i].frame.type = type
                            /\ p.sent[i].frame.sub = sub
                            /\ p.sent[i].frame.doc = d}

\* C25: the open event resets wsUnsuccessfulReconnects, sets wsconnected and
\* clears wsconnecting, writes one sync step 1 per registered document and the
\* local presence state of every registry whose local state is not null (none
\* for a null one), and emits one status 'connected' after all of these.
C25_OpenEventEffects ==
    [][provider'.lastOp = "onopen" =>
        /\ provider'.wsUnsuccessfulReconnects = 0
        /\ provider'.wsconnected
        /\ ~provider'.wsconnecting
        /\ \A d \in DocIds :
              /\ Cardinality(WrittenFor(provider', messageSync, "step1", d))
                    = IF d \in provider.docIds THEN 1 ELSE 0
              /\ Cardinality(WrittenFor(provider', messageAwareness, "", d))
                    = IF d \in provider.docIds
                         /\ provider.docsAwareness[d].states[provider.clientID] # NULL
                      THEN 1 ELSE 0
              /\ \A i \in WrittenFor(provider', messageAwareness, "", d) :
                    provider'.sent[i].frame.entries
                       = {[id |-> provider.clientID,
                           clock |-> provider.docsAwareness[d].meta[provider.clientID],
                           state |-> provider.docsAwareness[d].states[provider.clientID]]}
        /\ provider'.statusEvents = <<[status |-> "connected", after |-> Len(provider'.sent)]>>
        /\ Len(provider'.sent) > 0
    ]_vars

\* a socket opened while the main registry's local state was null and a
\* sub-document with a local state was registered
C25_Witness ==
    /\ provider.lastOp = "onopen"
    /\ provider.docsAwareness[roomname].states[provider.clientID] = NULL
    /\ "sub" \in provider.docIds
    /\ WrittenFor(provider, messageAwareness, "", roomname) = {}
    /\ WrittenFor(provider, messageAwareness, "", "sub") # {}
    /\ StatusCount(provider, "connected") = 1

\* the calls of the last turn that went to the socket (via = "ws") or to the bus ("bc")
Dispatched(p, via) == {i \in 1..Len(p.sent) : p.sent[i].via = via}

\* C26: a frame handed to broadcastMessage (here: the update of a local edit)
\* is written to the socket exactly when the session is connected and the
\* socket is open, and published on the bus exactly when the session is
\* subscribed; neither depends on the other.
C26_BroadcastPathsIndependent ==
    [][provider'.lastOp = "edit" =>
        /\ Cardinality(Dispatched(provider', "ws"))
              = IF provider.wsconnected /\ provider.ws = "OPEN" THEN 1 ELSE 0
        /\ Cardinality(Dispatched(provider', "bc"))
              = IF provider.bcconnected THEN 1 ELSE 0
        /\ \A i \in 1..Len(provider'.sent) :
              /\ provider'.sent[i].frame.sub = "update"
              /\ provider'.sent[i].frame.data = {LocalUpdate}
    ]_vars

\* an edit went to both the open socket and the bus
C26_Witness ==
    /\ provider.lastOp = "edit"
    /\ Dispatched(provider, "ws") # {}
    /\ Dispatched(provider, "bc") # {}

\* an edit was published on the bus while the session had no connection
C26_WitnessBusOnly ==
    /\ provider.lastOp = "edit"
    /\ ~provider.wsconnected
    /\ Dispatched(provider, "ws") = {}
    /\ Dispatched(provider, "bc") # {}

\* an edit was written to the socket of a session that is not subscribed
C26_WitnessSocketOnly ==
    /\ provider.lastOp = "edit"
    /\ ~provider.bcconnected
    /\ Dispatched(provider, "ws") # {}
    /\ Dispatched(provider, "bc") = {}

(***************************************************************************)
(* The server's broadcasts                                                 *)
(***************************************************************************)
\* the writes of frame m to connection k during the last turn of S
WritesTo(S, k, m) == {i \in 1..Len(S.sent) : S.sent[i].to = k /\ S.sent[i].frame = m}

\* the connections of room r whose socket is open
OpenMembers(S, r) ==
    {k \in Range(S.rooms[r].conns) : S.conns[k].readyState = wsReadyStateOpen}

\* C27: the message handler writes nothing of its own for an inbound
\* Awareness frame.  A frame that changes the registry makes the registry
\* notify once, and the notification is written exactly once to every open
\* connection of the room's set, the sender included, and to no other; a
\* frame that changes nothing is followed by no write.  A member whose socket
\* is no longer open is closed and removed by send, and the only other writes
\* of the turn are the notifications of the participants such a member
\* controlled.
C27_AwarenessBroadcastOnce ==
    \A c \in Conns, e \in ServerEntries :
        /\ server.conns[c].phase = "setup"
        /\ server.conns[c].readyState \in {wsReadyStateOpen, wsReadyStateClosing}
        =>
        LET r == server.conns[c].doc
            room == server.rooms[r]
            T == messageListener(SBegin(server), c, ServerAwareness({e}))
            a == applyAwarenessUpdate(room.awareness, {e}, ServerID)
            changed == a.added \cup a.filteredUpdated \cup a.removed
            notice == ServerAwareness(encodeAwarenessUpdate(a.aw, changed, a.aw.states))
        IN /\ \A k \in Conns :
                 Cardinality(WritesTo(T, k, notice))
                    = IF changed # {} /\ ~room.destroyed /\ k \in OpenMembers(server, r)
                      THEN 1 ELSE 0
           /\ \A i \in 1..Len(T.sent) :
                 \/ T.sent[i].frame = notice
                 \/ /\ T.sent[i].frame.type = messageAwareness
                    /\ T.sent[i].frame.entries # {}
                    /\ \A x \in T.sent[i].frame.entries : x.id \in T.removed /\ x.state = NULL
                    /\ Cardinality(WritesTo(T, T.sent[i].to, T.sent[i].frame)) = 1
           /\ changed = {} => T.sent = <<>>
           /\ changed # {} /\ ~room.destroyed =>
                 Range(T.rooms[r].conns) = OpenMembers(server, r)

\* one inbound frame that added a participant was written once to each of
\* the two connections of the room
C27_Witness ==
    /\ Len(server.sent) = 2
    /\ server.sent[1].frame = server.sent[2].frame
    /\ server.sent[1].frame.type = messageAwareness
    /\ {server.sent[1].to, server.sent[2].to} = Conns
    /\ \E x \in server.sent[1].frame.entries : x.state # NULL

\* a broadcast found a member not open: the participant it controlled left,
\* and the open member was told of that and of the inbound change
C27_WitnessCleanup ==
    /\ Len(server.sent) = 2
    /\ server.sent[1].to = server.sent[2].to
    /\ server.sent[1].frame # server.sent[2].frame
    /\ server.sent[1].frame.type = messageAwareness
    /\ server.sent[2].frame.type = messageAwareness
    /\ server.removed # {}

\* C28: an update the room's document emits (content of an inbound step 2 or
\* update that the document did not have) is written as one Sync frame to
\* every open connection of the room's set at that moment, the connection it
\* arrived on included, and to no connection outside the set.  A member whose
\* socket is no longer open is closed and removed by send; content the
\* document already had emits nothing.
C28_UpdateBroadcastToAll ==
    \A c \in Conns, sub \in {"step2", "update"}, data \in SUBSET {LocalUpdate, RemoteUpdate} :
        /\ server.conns[c].phase = "setup"
        /\ server.conns[c].readyState \in {wsReadyStateOpen, wsReadyStateClosing}
        =>
        LET r == server.conns[c].doc
            room == server.rooms[r]
            T == messageListener(SBegin(server), c, ServerSync(sub, data))
            new == data \ room.content
            emitted == new # {} /\ ~room.destroyed
            frame == ServerSync("update", new)
        IN /\ T.rooms[r].content = room.content \cup data
           /\ \A k \in Conns :
                 Cardinality(WritesTo(T, k, frame))
                    = IF emitted /\ k \in OpenMembers(server, r) THEN 1 ELSE 0
           /\ \A i \in 1..Len(T.sent) :
                 T.sent[i].frame.type = messageSync => T.sent[i].frame = frame
           /\ emitted => Range(T.rooms[r].conns) = OpenMembers(server, r)
           /\ ~emitted => T.sent = <<>>

\* an update that arrived on one connection was written to both connections
\* of the room, the one it arrived on included
C28_Witness ==
    /\ Len(server.sent) = 2
    /\ server.sent[1].frame = ServerSync("update", {LocalUpdate})
    /\ server.sent[2].frame = ServerSync("update", {LocalUpdate})
    /\ {server.sent[1].to, server.sent[2].to} = Conns
    /\ \E r \in 1..Len(server.rooms) : Range(server.rooms[r].conns) = Conns

\* C29: a tick of a connection's ping timer that finds the previous ping
\* unanswered closes the connection and takes it out of its room's connection
\* set (and stops the timer); a tick that finds the pong received, and whose
\* ping goes out, closes nothing and removes nothing.
C29_PingTimeoutCloses ==
    \A c \in Conns :
        server.conns[c].pingInterval =>
            LET r == server.conns[c].doc
                T == pingTick(SBegin(server), c, FALSE)
            IN IF ~server.conns[c].pongReceived
               THEN /\ c \notin Range(T.rooms[r].conns)
                    /\ T.conns[c].readyState # wsReadyStateOpen
                    /\ ~T.conns[c].pingInterval
                    /\ \A k \in 1..Len(T.sent) : T.sent[k].to # c
               ELSE /\ T.conns[c].readyState = server.conns[c].readyState
                    /\ T.rooms[r].conns = server.rooms[r].conns
                    /\ T.rooms[r].awareness = server.rooms[r].awareness
                    /\ T.conns[c].pingInterval
                    /\ T.removed = {}

\* an open connection that was a member of its room missed a pong and was
\* closed by its ping timer, and the participant it controlled left with it
C29_Witness ==
    \E c \in Conns :
        /\ server.conns[c].phase = "setup"
        /\ ~server.conns[c].pingInterval
        /\ ~server.conns[c].pongReceived
        /\ server.conns[c].readyState = wsReadyStateClosing
        /\ c \notin Range(server.rooms[server.conns[c].doc].conns)
        /\ server.removed # {}

(***************************************************************************)
(* The liveness watchdog.  ws.close() starts the closing handshake and the *)
(* socket fires its close event when the handshake ends or times out: WF   *)
(* on the close event of a closing socket, next to the WF on the timers.   *)
(***************************************************************************)
ClosingCompletes ==
    /\ provider.ws = "CLOSING"
    /\ WsCloseReconnect

SpecWatchdog ==
    InitReconnect /\ [][NextReconnect]_vars
    /\ WF_vars(ReconnectTimer) /\ WF_vars(ClosingCompletes)

\* C30: a tick of the watchdog that finds the session connected and no frame
\* received within messageReconnectTimeout closes the socket held; a tick
\* that finds wsconnected false, or a frame within the window, changes
\* nothing.  The close event of the closed socket then runs the ordinary
\* close path, and a new socket is created unless the application has
\* called disconnect().
C30_WatchdogClosesAndReconnects ==
    /\ [][provider'.lastOp = "checkInterval" =>
            IF provider.wsconnected /\ ~provider.wsFresh
            THEN /\ provider.ws = "OPEN" => provider'.ws = "CLOSING"
                 /\ provider'.wsconnected
            ELSE /\ provider'.ws = provider.ws
                 /\ provider'.wsconnected = provider.wsconnected
                 /\ provider'.timers = provider.timers
         ]_vars
    /\ (provider.lastOp = "checkInterval" /\ provider.ws = "CLOSING")
          ~> (provider.wsconnecting \/ ~provider.shouldConnect)

\* the watchdog closed the open socket of a connected session that had
\* received nothing within the window
C30_Witness ==
    /\ provider.lastOp = "checkInterval"
    /\ provider.ws = "CLOSING"
    /\ provider.wsconnected
    /\ ~provider.wsFresh
    /\ provider.shouldConnect
    /\ ~provider.userDisconnected

\* C31: in the exchange of cross-tab frames that follows a connect(), no
\* turn of a session's subscriber raises an error (and the exchange ends
\* with the channel empty).
C31_BusExchangeRaisesNoError ==
    \A who \in Sessions :
        Session(who).lastOp = "bcmessage" => ~Session(who).threw

\* C32: without a persistence collaborator every Room created stays in the
\* registry under its name and is never destroyed or written, whatever
\* connections open and close; a connection that arrives for an existing
\* name joins that Room object, whose content is what it was, also after
\* the Room's connection set had become empty.
C32_RoomResidentWithoutPersistence ==
    ~server.persistence =>
        /\ \A r \in 1..Len(server.rooms) :
              /\ ~server.rooms[r].destroyed
              /\ server.rooms[r].writes = 0
              /\ server.docs[server.rooms[r].name] = r
        /\ \A c \in Conns, nm \in RoomNames :
              server.conns[c].phase = "new" /\ server.docs[nm] # 0 =>
                  LET r == server.docs[nm]
                      T == setupWSConnection(SBegin(server), c, nm)
                  IN /\ T.conns[c].doc = r
                     /\ T.docs[nm] = r
                     /\ Len(T.rooms) = Len(server.rooms)
                     /\ T.rooms[r].content = server.rooms[r].content
                     /\ c \in Range(T.rooms[r].conns)
        /\ \A c \in Conns :
              server.conns[c].phase # "new" => server.conns[c].doc = 1

\* the second connection joined the Room that the first had left empty, and
\* was offered the content the first had written
C32_Witness ==
    /\ ~server.persistence
    /\ Len(server.rooms) = 1
    /\ server.rooms[1].emptied > 0
    /\ server.rooms[1].conns = <<2>>
    /\ server.rooms[1].content # {}
    /\ \E k \in 1..Len(server.sent) :
          /\ server.sent[k].to = 2
          /\ server.sent[k].frame = ServerSync("step1", server.rooms[1].content)

\* C33: whenever the last call of the application was connect() (shouldConnect
\* holds) and the cross-tab channel is not disabled, the session is
\* subscribed to the channel.
C33_ConnectSubscribesToBus ==
    provider.shouldConnect /\ ~provider.disableBc => provider.bcconnected

\* C34: with persistence, no Room object that bindState was called for
\* exists while a writeState of an earlier Room object of the same name is
\* still running.
C34_NoBindDuringWrite ==
    \A r1, r2 \in 1..Len(server.rooms) :
        /\ r1 < r2
        /\ server.rooms[r1].name = server.rooms[r2].name
        /\ server.rooms[r2].binds > 0
        => server.rooms[r1].pendingWrites = 0

\* C35: every participant id present in a room's Presence Registry is in
\* the controlled-id set of a connection that is in the room's connection
\* set.
C35_PresentIdsAreControlled ==
    \A r \in 1..Len(server.rooms) :
        \A i \in Present(server.rooms[r].awareness) :
            \E c \in Range(server.rooms[r].conns) : i \in server.rooms[r].controlled[c]

\* C36: the server relays the presence heartbeat of a session (its own
\* entry again, with a higher clock and the state unchanged) to the
\* connection it came from, so that the session receives a frame within
\* every window of its watchdog.
C36_HeartbeatRelayed ==
    \A c \in Conns, e \in ServerEntries :
        LET r == server.conns[c].doc IN
        /\ server.conns[c].phase = "setup"
        /\ c \in OpenMembers(server, r)
        /\ e.id \in server.rooms[r].controlled[c]
        /\ server.rooms[r].awareness.states[e.id] = e.state
        /\ e.state # NULL
        /\ currClock(server.rooms[r].awareness, e.id) < e.clock
        =>
        LET T == messageListener(SBegin(server), c, ServerAwareness({e}))
        IN \E k \in 1..Len(T.sent) : T.sent[k].to = c

\* C37: a Sync frame received from the cross-tab channel leaves the record
\* of unconfirmed local updates as it is: only frames received over the
\* socket remove or shrink its entries.
C37_BusNeverConfirms ==
    \A sub \in {"step1", "step2", "update"}, data \in SUBSET (LocalUpdates \cup {RemoteUpdate}) :
        statusBcSubscriber(provider, ServerSync(sub, data)).unconfirmedUpdates
            = provider.unconfirmedUpdates

\* C38: the ping timer of a connection that has left its room's connection
\* set is cancelled by its next tick, whether or not the last ping was
\* answered.  (The tick is the only place that clears the timer; a
\* connection outside the set is pinged no more, so a tick that leaves the
\* timer set changes nothing and is followed only by such ticks.)
C38_PingTimerCancelledAfterRemoval ==
    \A c \in Conns :
        LET r == server.conns[c].doc IN
        /\ server.conns[c].phase # "new"
        /\ server.conns[c].pingInterval
        /\ c \notin Range(server.rooms[r].conns)
        =>
        LET T == pingTick(SBegin(server), c, FALSE)
        IN ~T.conns[c].pingInterval

\* C39: wsconnected and wsconnecting are never both true; either of them
\* implies that a socket is held (ws is not null); with ws null both are
\* false.
C39_ConnectionFlagsConsistent ==
    /\ ~(provider.wsconnected /\ provider.wsconnecting)
    /\ provider.wsconnected \/ provider.wsconnecting => provider.ws # NULL
    /\ provider.ws = NULL => ~provider.wsconnected /\ ~provider.wsconnecting
    /\ provider.wsconnecting => provider.ws \in {"CONNECTING", "CLOSING"}
    /\ provider.ws = "OPEN" => provider.wsconnected

\* a session that had been connected and lost its socket is connecting
\* again through the reconnect timer
C39_Witness ==
    /\ provider.lastOp = "timer"
    /\ provider.wsconnecting
    /\ ~provider.wsconnected
    /\ provider.ws = "CONNECTING"
    /\ provider.wsUnsuccessfulReconnects = 0
    /\ provider.scheduledDelay = 100

(***************************************************************************)
(* The fragmenting transport adapter (LaravelEchoAdapter).  A message is   *)
(* the base64 string send() computes, a sequence of characters; the        *)
(* base64 coding itself is in utils/base64.js.  CHUNK_SIZE is scaled down  *)
(* from the adapter's 10000 characters.  peer is the receiving adapter:    *)
(* chunkBuffers and chunkMetadata, Maps keyed by message id (functions     *)
(* whose domain is the set of keys), and, as history, delivered, the       *)
(* strings handed to base64ToUint8Array and then to onmessage.  net is the *)
(* channel: sent (send was called), msg (the string sent), flight (the     *)
(* fragments whispered and not yet arrived), arrived (the indices that     *)
(* have arrived) and dups (the fragments the channel delivered a second    *)
(* time: a whisper whose callback reported an error is sent again by       *)
(* _retrySend although it may have gone out).                              *)
(***************************************************************************)
CHUNK_SIZE == 2
MaxDuplicates == 3
MessageId == "m1"   \* generateId()
Base64Strings == {<<>>, <<"a">>, <<"a", "b">>, <<"a", "b", "c">>, <<"a", "b", "c", "d">>,
                  <<"a", "b", "c", "d", "e">>, <<"a", "b", "c", "d", "e", "f", "g">>}

EmptyMap == [k \in {} |-> NULL]   \* new Map()
MapSet(map, key, value) == [k \in DOMAIN map \cup {key} |-> IF k = key THEN value ELSE map[k]]
MapDelete(map, key) == [k \in DOMAIN map \ {key} |-> map[k]]

\* Math.max(1, Math.ceil(base64Data.length / CHUNK_SIZE))
TotalOf(base64Data) ==
    IF Len(base64Data) = 0 THEN 1 ELSE (Len(base64Data) + CHUNK_SIZE - 1) \div CHUNK_SIZE

\* _sendAsFragments(base64Data, eventName): the fragment messages queued
sendAsFragments(base64Data, id) ==
    LET total == TotalOf(base64Data)
    IN {[id |-> id, index |-> index, total |-> total,
         data |-> SubSeq(base64Data, index * CHUNK_SIZE + 1,
                         Min(index * CHUNK_SIZE + CHUNK_SIZE, Len(base64Data)))] :
            index \in 0..(total - 1)}

NewAdapter == [chunkBuffers |-> EmptyMap, chunkMetadata |-> EmptyMap, delivered |-> <<>>]

\* _storeFragment(id, index, total, data)
storeFragment(a, id, index, total, data) ==
    LET a1 == IF id \notin DOMAIN a.chunkBuffers
              THEN [a EXCEPT !.chunkBuffers = MapSet(@, id, EmptyMap),
                             !.chunkMetadata = MapSet(@, id, [total |-> total, received |-> 0])]
              ELSE a
    IN IF index \notin DOMAIN a1.chunkBuffers[id]
       THEN [a1 EXCEPT !.chunkBuffers[id] = MapSet(@, index, data),
                       !.chunkMetadata[id].received = @ + 1]
       ELSE a1

RECURSIVE Joined(_, _, _)
\* for (let i = 0; i < meta.total; i++) joined += fragments.get(i) || ''
Joined(fragments, i, total) ==
    IF i >= total THEN <<>>
    ELSE (IF i \in DOMAIN fragments THEN fragments[i] ELSE <<>>) \o Joined(fragments, i + 1, total)

\* _tryReassemble(id), and the onmessage that follows a non-null result
tryReassemble(a, id) ==
    IF id \notin DOMAIN a.chunkBuffers \/ id \notin DOMAIN a.chunkMetadata
    THEN a
    ELSE IF a.chunkMetadata[id].received # a.chunkMetadata[id].total
    THEN a
    ELSE [a EXCEPT !.delivered = Append(@, Joined(a.chunkBuffers[id], 0, a.chunkMetadata[id].total)),
                   !.chunkBuffers = MapDelete(@, id),
                   !.chunkMetadata = MapDelete(@, id)]

\* _processIncomingMessage(event)
processIncomingMessage(a, event) ==
    tryReassemble(storeFragment(a, event.id, event.index, event.total, event.data), event.id)

\* send(data)
FragSend ==
    /\ ~net.sent
    /\ \E base64Data \in Base64Strings :
          net' = [net EXCEPT !.sent = TRUE, !.msg = base64Data,
                             !.flight = sendAsFragments(base64Data, MessageId)]
    /\ UNCHANGED <<provider, server, peer>>

\* listenForWhisper: a fragment arrives, in any order
FragArrive ==
    /\ \E event \in net.flight :
          /\ peer' = processIncomingMessage(peer, event)
          /\ net' = [net EXCEPT !.flight = @ \ {event}, !.arrived = @ \cup {event.index}]
    /\ UNCHANGED <<provider, server>>

\* a fragment that has arrived arrives again
FragRedeliver ==
    /\ net.sent
    /\ net.dups < MaxDuplicates
    /\ \E event \in sendAsFragments(net.msg, MessageId) :
          /\ event.index \in net.arrived
          /\ peer' = processIncomingMessage(peer, event)
          /\ net' = [net EXCEPT !.dups = @ + 1]
    /\ UNCHANGED <<provider, server>>

InitFragments ==
    /\ provider = NewProvider(FALSE, 2500, FALSE)
    /\ server = NewServer(FALSE)
    /\ peer = NewAdapter
    /\ net = [sent |-> FALSE, msg |-> <<>>, flight |-> {}, arrived |-> {}, dups |-> 0]

NextFragments ==
    \/ FragSend
    \/ FragArrive
    \/ FragRedeliver

SpecFragments == InitFragments /\ [][NextFragments]_vars

\* C40: whatever the order in which the fragments of a message arrive and
\* whichever of them arrive more than once, the receiver delivers the
\* message once, unchanged, with the arrival of the last missing fragment,
\* and once every fragment has arrived it holds no buffer and no metadata
\* for the message id.
C40_ReassembledExactlyOnce ==
    net.sent =>
        IF net.arrived = 0..(TotalOf(net.msg) - 1)
        THEN /\ peer.delivered = <<net.msg>>
             /\ MessageId \notin DOMAIN peer.chunkBuffers
             /\ MessageId \notin DOMAIN peer.chunkMetadata
        ELSE peer.delivered = <<>>

\* C40 without duplication: the fragments arrive once each, in any order
C40_ReassembledWithoutDuplicates ==
    net.sent /\ net.dups = 0 =>
        IF net.arrived = 0..(TotalOf(net.msg) - 1)
        THEN /\ peer.delivered = <<net.msg>>
             /\ MessageId \notin DOMAIN peer.chunkBuffers
             /\ MessageId \notin DOMAIN peer.chunkMetadata
        ELSE peer.delivered = <<>>

====
